---- MODULE Spec2Model ----
(***************************************************************************)
(* Model of the Dynamic Quote Generator, src/dom-manipulation/script.js:   *)
(* the in-memory collection `quotes`, its copy in localStorage, the       *)
(* import/export codec and the syncQuotes() reconciliation cycle.          *)
(*                                                                         *)
(* JavaScript strings are sequences of atoms.  The atoms " " (white space) *)
(* and "|" (the pipe of the "||" key separator) are single characters; any *)
(* other atom is an opaque run of characters holding neither of them.      *)
(* A JavaScript value is a record [t |-> its typeof, v |-> its string      *)
(* coercion], so that `typeof x === "string"` and `x + "||" + y` are both  *)
(* computed as the code computes them.                                     *)
(***************************************************************************)
EXTENDS Integers, Sequences, FiniteSets, TLC

VARIABLES
  quotes,            \* script.js:42   let quotes = []
  selectedCategory,  \* script.js:43   let selectedCategory = "all"
  store,             \* localStorage[LOCAL_KEY]
  filterStore,       \* localStorage[LOCAL_KEY_FILTER]
  loaded,            \* the DOMContentLoaded handler has run in this page
  cycles,            \* the syncQuotes() invocations suspended at an await
  addPosts,          \* the POSTs of addQuote still awaiting their response
  reads,             \* the FileReader reads still awaiting onload
  lastAction,        \* name of the handler that ran last
  sent,              \* the requests issued by the handler that ran last
  notice,            \* the notification shown by the handler that ran last
  lastResp,          \* the response consumed by the handler that ran last
  lastSync,          \* the merge made by the handler that ran last
  acked,             \* items whose addQuote POST was acknowledged (history)
  failedPush,        \* items whose addQuote POST failed (history)
  events,            \* number of user / timer / reload events so far
  storageFull,       \* localStorage.setItem throws (quota exceeded)
  effects,           \* the calls made by the handler that ran last, in order
  lastInput,         \* the arguments of the handler that ran last
  failedSave,        \* items in memory when a write of them failed (history)
  exported,          \* the text of the file last downloaded by exportQuotesToJson
  session,           \* sessionStorage[SESSION_KEY_LAST], parsed
  display,           \* quoteDisplay.textContent
  page               \* the script the page runs

vars == <<quotes, selectedCategory, store, filterStore, loaded, cycles,
          addPosts, reads, lastAction, sent, notice, lastResp, lastSync,
          acked, failedPush, events, storageFull, effects, lastInput, failedSave,
          exported, session, display, page>>

----------------------------------------------------------------------------
(* Bounds of the model                                                     *)

MaxEvents == 1
MaxCycles == 2
MaxLocal == 2
MaxBatch == 2
MaxStored == 3

\* Length of the strings given to isValidQuoteObject
MaxLen == 3

----------------------------------------------------------------------------
(* JavaScript values and strings                                           *)

Str(s) == [t |-> "string", v |-> s]
Num(s) == [t |-> "number", v |-> s]
Undefined == [t |-> "undefined", v |-> <<"undefined">>]
JNull == [t |-> "null", v |-> <<"null">>]

\* x is falsy: undefined, null, "" or 0
Falsy(x) ==
  \/ x.t \in {"undefined", "null"}
  \/ x.t = "string" /\ x.v = <<>>
  \/ x.t = "number" /\ x.v = <<"0">>

RECURSIVE TrimStart(_)
TrimStart(s) ==
  IF s # <<>> /\ Head(s) = " " THEN TrimStart(Tail(s)) ELSE s

RECURSIVE TrimEnd(_)
TrimEnd(s) ==
  IF s # <<>> /\ s[Len(s)] = " " THEN TrimEnd(SubSeq(s, 1, Len(s) - 1)) ELSE s

\* (text || "") without the call of trim (script.js:237-238)
Trim_None(s) == s

\* String.prototype.trim
Trim(s) == TrimEnd(TrimStart(s))

Range(s) == {s[i] : i \in 1..Len(s)}

Quote(t, c) == [text |-> Str(t), category |-> Str(c)]

Min(a, b) == IF a < b THEN a ELSE b

----------------------------------------------------------------------------
(* Program constants                                                       *)

\* script.js:11-25
defaultQuotes ==
  << Quote(<<"The best way to get started is to quit talking and begin doing.">>,
           <<"Motivation">>),
     Quote(<<"Success is not in what you have, but who you are.">>,
           <<"Success">>),
     Quote(<<"Happiness depends upon ourselves.">>, <<"Happiness">>),
     Quote(<<"In the middle of every difficulty lies opportunity.">>,
           <<"Inspiration">>) >>

\* script.js:326  data.slice(0, 10)
FetchLimit == 10

\* script.js:387  localOnly.slice(0, 10)
PushBatch == 10

All == <<"all">>
ServerSync == <<"Server", " ", "Sync">>
Sep == <<"|", "|">>

----------------------------------------------------------------------------
(* Validation and the dedup key                                            *)

\* script.js:106-114; obj is null or an object with (possibly undefined)
\* properties text and category
\* isValidQuoteObject testing the lengths without trim()
isValidQuoteObject_NoTrim(obj) ==
  /\ obj # JNull
  /\ obj.text.t = "string"
  /\ obj.category.t = "string"
  /\ Len(obj.text.v) > 0
  /\ Len(obj.category.v) > 0

isValidQuoteObject(obj) ==
  /\ obj # JNull
  /\ obj.text.t = "string"
  /\ obj.category.t = "string"
  /\ Len(Trim(obj.text.v)) > 0
  /\ Len(Trim(obj.category.v)) > 0

\* q.text + "||" + q.category  (script.js:297, 299, 350, 353, 381, 384)
Key(q) == q.text.v \o Sep \o q.category.v

KeySet(qs) == {Key(qs[i]) : i \in 1..Len(qs)}

----------------------------------------------------------------------------
(* localStorage: JSON.stringify / JSON.parse and load                      *)

\* The value under a localStorage key: absent (getItem gives null), a text
\* JSON.parse rejects, the JSON text of a non-array, or the JSON text of an
\* array.  arr holds the elements of the array, each null or an object.
StoreAbsent == [kind |-> "absent", arr |-> <<>>]
StoreUnparseable == [kind |-> "unparseable", arr |-> <<>>]
StoreNonArray == [kind |-> "nonarray", arr |-> <<>>]

\* JSON.stringify of one property value: undefined is dropped from the text,
\* which a later parse reads back as undefined; strings and numbers are kept.
StringifyValue(x) == IF x.t = "undefined" THEN Undefined ELSE x

\* JSON.stringify(quotes)  (script.js:77)
JSONstringify(qs) ==
  [kind |-> "array",
   arr |-> [i \in 1..Len(qs) |->
              IF qs[i] = JNull THEN JNull
              ELSE [text |-> StringifyValue(qs[i].text),
                    category |-> StringifyValue(qs[i].category)]]]

\* saveQuotesToLocalStorage writing JSON.stringify(defaultQuotes)
saveQuotesToLocalStorage_Defaults(qs, st, full) ==
  IF full THEN st ELSE JSONstringify(defaultQuotes)

\* script.js:75-81: the value under LOCAL_KEY after the call, st being the
\* value before it; when setItem throws (full) the catch leaves st in place
saveQuotesToLocalStorage(qs, st, full) ==
  IF full THEN st ELSE JSONstringify(qs)

\* loadQuotesFromLocalStorage with parsed.some in place of parsed.every
\* (script.js:92)
loadQuotesFromLocalStorage_Some(d, full) ==
  IF d.kind \in {"absent", "unparseable"}
  THEN [quotes |-> defaultQuotes, saved |-> TRUE,
        store |-> saveQuotesToLocalStorage(defaultQuotes, d, full)]
  ELSE IF d.kind = "array" /\ \E i \in 1..Len(d.arr) : isValidQuoteObject(d.arr[i])
  THEN [quotes |-> d.arr, saved |-> FALSE, store |-> d]
  ELSE [quotes |-> defaultQuotes, saved |-> TRUE,
        store |-> saveQuotesToLocalStorage(defaultQuotes, d, full)]

\* script.js:83-103: the collection loaded from the stored value d and the
\* value left in the store
loadQuotesFromLocalStorage(d, full) ==
  IF d.kind = "absent"
  THEN [quotes |-> defaultQuotes, saved |-> TRUE,
        store |-> saveQuotesToLocalStorage(defaultQuotes, d, full)]
  ELSE IF d.kind = "unparseable"
  THEN [quotes |-> defaultQuotes, saved |-> TRUE,
        store |-> saveQuotesToLocalStorage(defaultQuotes, d, full)]
  ELSE IF d.kind = "array" /\ \A i \in 1..Len(d.arr) : isValidQuoteObject(d.arr[i])
  THEN [quotes |-> d.arr, saved |-> FALSE, store |-> d]
  ELSE [quotes |-> defaultQuotes, saved |-> TRUE,
        store |-> saveQuotesToLocalStorage(defaultQuotes, d, full)]

\* script.js:159-178: the selection restored from the stored filter.  The
\* callback deferred by setTimeout (script.js:164-171) assigns only the
\* value of the dropdown, when it has the option, and renders the list: it
\* leaves selectedCategory as assigned here.
restoreSelectedCategory(saved) ==
  IF ~Falsy(saved) THEN saved.v ELSE All

----------------------------------------------------------------------------
(* Server transport and merge                                              *)

\* A response to GET: kind is "neterr" (fetch rejects), "notok" (res.ok is
\* false), "badjson" (res.json() rejects) or "ok"; data is the parsed array
\* of records [title, body, id].
ServerText(item) ==
  IF ~Falsy(item.title) THEN item.title
  ELSE IF ~Falsy(item.body) THEN item.body
  ELSE Str(<<"Server", " ">> \o item.id.v)

\* fetchQuotesFromServer without the res.ok test of script.js:322
fetchQuotesFromServer_NoOkTest(resp) ==
  IF resp.kind = "neterr" \/ \E i \in 1..Min(FetchLimit, Len(resp.data)) : resp.data[i] = JNull
  THEN [threw |-> TRUE, value |-> <<>>]
  ELSE [threw |-> FALSE,
        value |-> [i \in 1..Min(FetchLimit, Len(resp.data)) |->
                     [text |-> ServerText(resp.data[i]),
                      category |-> Str(ServerSync)]]]

\* fetchQuotesFromServer with data.slice(1, 10) at script.js:326
fetchQuotesFromServer_SkipFirst(resp) ==
  IF resp.kind # "ok" \/ \E i \in 2..Min(FetchLimit, Len(resp.data)) : resp.data[i] = JNull
  THEN [threw |-> TRUE, value |-> <<>>]
  ELSE [threw |-> FALSE,
        value |-> [i \in 1..(Min(FetchLimit, Len(resp.data)) - 1) |->
                     [text |-> ServerText(resp.data[i + 1]),
                      category |-> Str(ServerSync)]]]

\* fetchQuotesFromServer without the slice(0, 10) of script.js:326
fetchQuotesFromServer_NoSlice(resp) ==
  IF resp.kind # "ok" \/ \E i \in 1..Len(resp.data) : resp.data[i] = JNull
  THEN [threw |-> TRUE, value |-> <<>>]
  ELSE [threw |-> FALSE,
        value |-> [i \in 1..Len(resp.data) |->
                     [text |-> ServerText(resp.data[i]),
                      category |-> Str(ServerSync)]]]

\* script.js:320-331: threw is TRUE when the function rejects
fetchQuotesFromServer(resp) ==
  IF resp.kind # "ok" \/ \E i \in 1..Min(FetchLimit, Len(resp.data)) : resp.data[i] = JNull
  THEN [threw |-> TRUE, value |-> <<>>]
  ELSE [threw |-> FALSE,
        value |-> [i \in 1..Min(FetchLimit, Len(resp.data)) |->
                     [text |-> ServerText(resp.data[i]),
                      category |-> Str(ServerSync)]]]

RECURSIVE MergeLoop_NoSetAdd(_, _, _, _)
\* the forEach without localKeySet.add(key) of script.js:356
MergeLoop_NoSetAdd(qs, localKeySet, added, serverQuotes) ==
  IF serverQuotes = <<>> THEN [quotes |-> qs, added |-> added]
  ELSE LET sq == Head(serverQuotes)
           key == Key(sq)
       IN IF key \notin localKeySet
          THEN MergeLoop_NoSetAdd(Append(qs, [text |-> sq.text, category |-> sq.category]),
                                  localKeySet, added + 1, Tail(serverQuotes))
          ELSE MergeLoop_NoSetAdd(qs, localKeySet, added, Tail(serverQuotes))

RECURSIVE MergeLoop_Unshift(_, _, _, _)
\* the forEach with quotes.unshift in place of quotes.push (script.js:355)
MergeLoop_Unshift(qs, localKeySet, added, serverQuotes) ==
  IF serverQuotes = <<>> THEN [quotes |-> qs, added |-> added]
  ELSE LET sq == Head(serverQuotes)
           key == Key(sq)
       IN IF key \notin localKeySet
          THEN MergeLoop_Unshift(<<[text |-> sq.text, category |-> sq.category]>> \o qs,
                                 localKeySet \cup {key}, added + 1, Tail(serverQuotes))
          ELSE MergeLoop_Unshift(qs, localKeySet, added, Tail(serverQuotes))

RECURSIVE MergeLoop_CountAll(_, _, _, _)
\* the forEach with added++ outside the test of script.js:354
MergeLoop_CountAll(qs, localKeySet, added, serverQuotes) ==
  IF serverQuotes = <<>> THEN [quotes |-> qs, added |-> added]
  ELSE LET sq == Head(serverQuotes)
           key == Key(sq)
       IN IF key \notin localKeySet
          THEN MergeLoop_CountAll(Append(qs, [text |-> sq.text, category |-> sq.category]),
                                  localKeySet \cup {key}, added + 1, Tail(serverQuotes))
          ELSE MergeLoop_CountAll(qs, localKeySet, added + 1, Tail(serverQuotes))

RECURSIVE MergeLoop(_, _, _, _)
\* script.js:352-359: the forEach over serverQuotes
MergeLoop(qs, localKeySet, added, serverQuotes) ==
  IF serverQuotes = <<>> THEN [quotes |-> qs, added |-> added]
  ELSE LET sq == Head(serverQuotes)
           key == Key(sq)
       IN IF key \notin localKeySet
          THEN MergeLoop(Append(qs, [text |-> sq.text, category |-> sq.category]),
                         localKeySet \cup {key}, added + 1, Tail(serverQuotes))
          ELSE MergeLoop(qs, localKeySet, added, Tail(serverQuotes))

\* mergeServerIntoLocal with localKeySet starting empty (script.js:350)
mergeServerIntoLocal_EmptySet(qs, serverQuotes) ==
  MergeLoop(qs, {}, 0, serverQuotes)

\* mergeServerIntoLocal with localKeySet built from the texts alone
\* (quotes.map((q) => q.text) at script.js:350)
mergeServerIntoLocal_TextKeys(qs, serverQuotes) ==
  MergeLoop(qs, {qs[i].text.v : i \in 1..Len(qs)}, 0, serverQuotes)

\* script.js:348-361
mergeServerIntoLocal(qs, serverQuotes) ==
  MergeLoop(qs, KeySet(qs), 0, serverQuotes)

RECURSIVE Filter(_, _)
\* Array.prototype.filter keeping the items whose key is not in keys
Filter(qs, keys) ==
  IF qs = <<>> THEN <<>>
  ELSE IF Key(Head(qs)) \notin keys THEN <<Head(qs)>> \o Filter(Tail(qs), keys)
       ELSE Filter(Tail(qs), keys)

\* localOnlyBatch without the slice(0, 10) of script.js:387
localOnlyBatch_NoSlice(qs, serverQuotes) ==
  Filter(qs, KeySet(serverQuotes))

\* script.js:380-387: localOnly.slice(0, 10)
localOnlyBatch(qs, serverQuotes) ==
  LET localOnly == Filter(qs, KeySet(serverQuotes))
  IN SubSeq(localOnly, 1, Min(PushBatch, Len(localOnly)))

----------------------------------------------------------------------------
(* Inputs of the environment                                               *)

A == <<"A">>
B == <<"B">>
C == <<"C">>
X == <<"X">>
Y == <<"Y">>
Z == <<"Z">>

\* PushBatch distinct valid items, the defaults first: a collection a former
\* session persisted after six additions
StoredTen ==
  defaultQuotes \o [i \in 1..(PushBatch - Len(defaultQuotes)) |->
                      Quote(<<"N", ToString(i)>>, X)]

\* What localStorage may hold when the page is opened: the values under
\* LOCAL_KEY and LOCAL_KEY_FILTER.  The fourth is the store of a session
\* that added {A, X} and adopted the remote item A.
InitStorage ==
  { <<StoreAbsent, JNull>>,
    <<StoreUnparseable, JNull>>,
    <<StoreNonArray, JNull>>,
    <<JSONstringify(<<Quote(A, X), Quote(A, ServerSync)>>), Str(X)>>,
    <<JSONstringify(<<Quote(A, X), Quote(<<" ">>, X)>>), JNull>> }

\* The (text, category) pairs typed into the add-quote form
AddInputs ==
  { <<Str(<<" ", "A", " ">>), Str(X)>>,
    <<Str(<<" ">>), Str(X)>>,
    <<Str(A), Str(<<>>)>> }

\* The file contents offered to import
ImportFiles ==
  { StoreUnparseable, StoreNonArray,
    JSONstringify(<<Quote(A, X), Quote(B, Y)>>),
    JSONstringify(<<Quote(B, Y), JNull, Quote(B, Y),
                    [text |-> Str(C), category |-> Undefined]>>) }

Record(title, body, id) == [title |-> title, body |-> body, id |-> Num(<<id>>)]

\* The responses of the server to GET
Responses ==
  { [kind |-> "neterr", data |-> <<>>],
    [kind |-> "notok", data |-> <<Record(Str(C), Str(<<>>), "1")>>],
    [kind |-> "ok", data |-> <<Record(Str(A), Str(B), "1"),
                               Record(Str(<<>>), Str(C), "2"),
                               Record(Str(A), Undefined, "3")>>],
    [kind |-> "ok", data |-> <<Record(Str(<<" ">>), Str(B), "1")>>] }

GET == [method |-> "GET", body |-> JNull]
POST(q) == [method |-> "POST", body |-> q]

NoNotice == [kind |-> "none", n |-> 0]
NoResp == [kind |-> "none", data |-> <<>>]
NoSync == [set |-> FALSE, serverQuotes |-> <<>>, added |-> 0, batch |-> <<>>]

RemoveAt(s, k) == SubSeq(s, 1, k - 1) \o SubSeq(s, k + 1, Len(s))

NoInput == [kind |-> "none"]

\* quoteDisplay.textContent: untouched, the "No quotes available" text, an
\* item shown by showRandomQuote, an item restored from the session
NoDisplay == [kind |-> "none"]
EmptyDisplay == [kind |-> "empty"]
Shown(q) == [kind |-> "quote", text |-> q.text, category |-> q.category]
Restored(q) == [kind |-> "restored", text |-> q.text, category |-> q.category]

\* script.js:181-190: the text displayed after restoreLastViewedQuote, raw
\* being the value under SESSION_KEY_LAST and d the text displayed before
restoreLastViewedQuote(raw, d) ==
  IF raw # JNull /\ isValidQuoteObject(raw) THEN Restored(raw) ELSE d
NoFile == [kind |-> "none", arr |-> <<>>]

\* script.js:77: the call of localStorage.setItem, which throws when full
SetItem(full) == IF full THEN "setItem throws" ELSE "setItem"

\* script.js:78-80: the items of qs a failed write left out of the store st
NotWritten(qs, st, full) == IF full THEN Range(qs) \ Range(st.arr) ELSE {}

----------------------------------------------------------------------------
(* State machine                                                           *)

Init ==
  /\ quotes = <<>>
  /\ selectedCategory = All
  /\ \E st \in InitStorage : store = st[1] /\ filterStore = st[2]
  /\ loaded = FALSE
  /\ cycles = <<>>
  /\ addPosts = <<>>
  /\ reads = <<>>
  /\ lastAction = "init"
  /\ sent = <<>>
  /\ notice = NoNotice
  /\ lastResp = NoResp
  /\ lastSync = NoSync
  /\ acked = {}
  /\ failedPush = {}
  /\ events = 0
  /\ storageFull = FALSE
  /\ effects = <<>>
  /\ lastInput = NoInput
  /\ failedSave = {}
  /\ exported = NoFile
  /\ session = JNull
  /\ display = NoDisplay
  /\ page = "script.js"

\* A syncQuotes() invocation suspended at `await fetch(SERVER_URL)`
FetchingCycle == [pc |-> "fetch", batch |-> <<>>, i |-> 0]

\* script.js:49-72: the DOMContentLoaded handler, up to the first await of
\* the syncQuotes() call it makes
Startup ==
  /\ ~loaded
  /\ LET r == loadQuotesFromLocalStorage(store, storageFull)
     IN /\ quotes' = r.quotes
        /\ store' = r.store
        /\ effects' = (IF r.saved THEN <<SetItem(storageFull)>> ELSE <<>>) \o <<"GET">>
        /\ failedSave' = IF r.saved
                         THEN NotWritten(r.quotes, store, storageFull)
                         ELSE {}
  /\ selectedCategory' = restoreSelectedCategory(filterStore)
  /\ loaded' = TRUE
  /\ cycles' = <<FetchingCycle>>
  /\ sent' = <<GET>>
  /\ lastAction' = "Startup"
  /\ notice' = NoNotice
  /\ lastResp' = NoResp
  /\ lastSync' = NoSync
  /\ lastInput' = NoInput
  /\ display' = restoreLastViewedQuote(session, display)
  /\ UNCHANGED <<filterStore, addPosts, reads, acked, failedPush, events,
                 storageFull, exported, session, page>>

\* The page is reloaded: the script's state is gone, localStorage stays
Reload ==
  /\ loaded
  /\ events < MaxEvents
  /\ events' = events + 1
  /\ quotes' = <<>>
  /\ selectedCategory' = All
  /\ loaded' = FALSE
  /\ cycles' = <<>>
  /\ addPosts' = <<>>
  /\ reads' = <<>>
  /\ sent' = <<>>
  /\ lastAction' = "Reload"
  /\ notice' = NoNotice
  /\ lastResp' = NoResp
  /\ lastSync' = NoSync
  /\ effects' = <<>>
  /\ lastInput' = NoInput
  /\ failedSave' = {}
  /\ display' = NoDisplay
  /\ UNCHANGED <<store, filterStore, acked, failedPush, storageFull, exported,
                 session, page>>

\* script.js:71, 425: a timer tick or a manual window.syncQuotes() call runs
\* syncQuotes() up to its first await (script.js:364-367, 321).  The ticks
\* of setInterval go on for ever; a tick that arrives while a cycle is still
\* in flight is counted as an event.
SyncTrigger ==
  /\ loaded
  /\ Len(cycles) < MaxCycles
  /\ cycles # <<>> => events < MaxEvents
  /\ events' = IF cycles = <<>> THEN events ELSE events + 1
  /\ cycles' = Append(cycles, FetchingCycle)
  /\ sent' = <<GET>>
  /\ lastAction' = "SyncTrigger"
  /\ notice' = NoNotice
  /\ lastResp' = NoResp
  /\ lastSync' = NoSync
  /\ effects' = <<"GET">>
  /\ lastInput' = NoInput
  /\ UNCHANGED <<quotes, selectedCategory, store, filterStore, loaded,
                 addPosts, reads, acked, failedPush, storageFull, failedSave,
                 exported, session, display, page>>

\* script.js:367-398: the fetch of cycle k is answered by resp; the cycle
\* runs from the await of line 367 to its next await (the first POST of the
\* push loop) or to its end
SyncFetch(k, resp) ==
  /\ k \in 1..Len(cycles)
  /\ cycles[k].pc = "fetch"
  /\ lastResp' = resp
  /\ lastAction' = "SyncFetch"
  /\ LET r == fetchQuotesFromServer(resp)
     IN IF r.threw
        THEN \* catch (script.js:394-397)
             /\ notice' = [kind |-> "syncfailed", n |-> 0]
             /\ cycles' = RemoveAt(cycles, k)
             /\ sent' = <<>>
             /\ lastSync' = NoSync
             /\ effects' = <<"notify">>
             /\ UNCHANGED <<quotes, store, failedSave>>
        ELSE LET m == mergeServerIntoLocal(quotes, r.value)
                 batch == localOnlyBatch(m.quotes, r.value)
             IN /\ quotes' = m.quotes
                /\ store' = IF m.added > 0
                            THEN saveQuotesToLocalStorage(m.quotes, store, storageFull)
                            ELSE store
                /\ failedSave' = IF m.added > 0
                                 THEN failedSave \cup NotWritten(m.quotes, store, storageFull)
                                 ELSE failedSave
                /\ effects' = (IF m.added > 0
                               THEN <<SetItem(storageFull), "notify">> ELSE <<>>)
                              \o (IF batch = <<>> THEN <<>> ELSE <<"POST">>)
                /\ notice' = IF m.added > 0
                             THEN [kind |-> "synced", n |-> m.added]
                             ELSE NoNotice
                /\ lastSync' = [set |-> TRUE, serverQuotes |-> r.value,
                                added |-> m.added, batch |-> batch]
                /\ IF batch = <<>>
                   THEN /\ cycles' = RemoveAt(cycles, k)
                        /\ sent' = <<>>
                   ELSE /\ cycles' = [cycles EXCEPT
                                        ![k] = [pc |-> "push", batch |-> batch, i |-> 1]]
                        /\ sent' = <<POST(batch[1])>>
  /\ lastInput' = NoInput
  /\ UNCHANGED <<selectedCategory, filterStore, loaded, addPosts, reads,
                 acked, failedPush, events, storageFull, exported,
                 session, display, page>>

\* SyncPush without the try/catch of script.js:388-392: a failed POST
\* reaches the catch of script.js:394-397 and ends the cycle
SyncPush_NoInnerCatch(k, ok) ==
  /\ k \in 1..Len(cycles)
  /\ cycles[k].pc = "push"
  /\ LET cy == cycles[k]
     IN IF ok /\ cy.i < Len(cy.batch)
        THEN /\ cycles' = [cycles EXCEPT ![k].i = cy.i + 1]
             /\ sent' = <<POST(cy.batch[cy.i + 1])>>
             /\ effects' = <<"POST">>
        ELSE /\ cycles' = RemoveAt(cycles, k)
             /\ sent' = <<>>
             /\ effects' = IF ok THEN <<>> ELSE <<"notify">>
  /\ lastAction' = "SyncPush"
  /\ notice' = IF ok THEN NoNotice ELSE [kind |-> "syncfailed", n |-> 0]
  /\ lastResp' = [kind |-> IF ok THEN "posted" ELSE "postfailed", data |-> <<>>]
  /\ lastSync' = NoSync
  /\ lastInput' = NoInput
  /\ UNCHANGED <<quotes, selectedCategory, store, filterStore, loaded,
                 addPosts, reads, acked, failedPush, events, storageFull,
                 failedSave, exported, session, display, page>>

\* SyncPush that issues the POST of batch[i] again when it failed
SyncPush_RetryOnFailure(k, ok) ==
  /\ k \in 1..Len(cycles)
  /\ cycles[k].pc = "push"
  /\ LET cy == cycles[k]
     IN IF ~ok
        THEN /\ cycles' = cycles
             /\ sent' = <<POST(cy.batch[cy.i])>>
             /\ effects' = <<"console.warn", "POST">>
        ELSE IF cy.i < Len(cy.batch)
        THEN /\ cycles' = [cycles EXCEPT ![k].i = cy.i + 1]
             /\ sent' = <<POST(cy.batch[cy.i + 1])>>
             /\ effects' = <<"POST">>
        ELSE /\ cycles' = RemoveAt(cycles, k)
             /\ sent' = <<>>
             /\ effects' = <<>>
  /\ lastAction' = "SyncPush"
  /\ notice' = IF ok THEN NoNotice
               ELSE [kind |-> "console.warn: Post retry deferred", n |-> 0]
  /\ lastResp' = [kind |-> IF ok THEN "posted" ELSE "postfailed", data |-> <<>>]
  /\ lastSync' = NoSync
  /\ lastInput' = NoInput
  /\ UNCHANGED <<quotes, selectedCategory, store, filterStore, loaded,
                 addPosts, reads, acked, failedPush, events, storageFull,
                 failedSave, exported, session, display, page>>

\* script.js:387-393: the POST of cycle k for batch[i] is answered (ok) or
\* fails; the loop goes on to the next item of the batch
SyncPush(k, ok) ==
  /\ k \in 1..Len(cycles)
  /\ cycles[k].pc = "push"
  /\ LET cy == cycles[k]
     IN IF cy.i < Len(cy.batch)
        THEN /\ cycles' = [cycles EXCEPT ![k].i = cy.i + 1]
             /\ sent' = <<POST(cy.batch[cy.i + 1])>>
             /\ effects' = (IF ok THEN <<>> ELSE <<"console.warn">>) \o <<"POST">>
        ELSE /\ cycles' = RemoveAt(cycles, k)
             /\ sent' = <<>>
             /\ effects' = IF ok THEN <<>> ELSE <<"console.warn">>
  /\ lastAction' = "SyncPush"
  /\ notice' = IF ok THEN NoNotice
               ELSE [kind |-> "console.warn: Post retry deferred", n |-> 0]
  /\ lastResp' = [kind |-> IF ok THEN "posted" ELSE "postfailed", data |-> <<>>]
  /\ lastSync' = NoSync
  /\ lastInput' = NoInput
  /\ UNCHANGED <<quotes, selectedCategory, store, filterStore, loaded,
                 addPosts, reads, acked, failedPush, events, storageFull,
                 failedSave, exported, session, display, page>>

\* addQuote with a saveQuotesToLocalStorage that has no try/catch
\* (script.js:76-80): a failing write ends the handler after the push to
\* `quotes` of script.js:244
addQuote_SaveThrows(text, category) ==
  /\ loaded
  /\ events < MaxEvents
  /\ events' = events + 1
  /\ lastAction' = "addQuote"
  /\ LET t == Trim(IF Falsy(text) THEN <<>> ELSE text.v)
         c == Trim(IF Falsy(category) THEN <<>> ELSE category.v)
         obj == Quote(t, c)
     IN IF t = <<>> \/ c = <<>>
        THEN /\ notice' = [kind |-> "alert: Please fill in both fields.", n |-> 0]
             /\ sent' = <<>>
             /\ effects' = <<"alert">>
             /\ UNCHANGED <<quotes, store, selectedCategory, addPosts, failedSave>>
        ELSE IF storageFull
        THEN /\ quotes' = Append(quotes, obj)
             /\ failedSave' = failedSave \cup NotWritten(Append(quotes, obj), store, TRUE)
             /\ effects' = <<SetItem(TRUE)>>
             /\ sent' = <<>>
             /\ notice' = NoNotice
             /\ UNCHANGED <<store, selectedCategory, addPosts>>
        ELSE /\ quotes' = Append(quotes, obj)
             /\ store' = saveQuotesToLocalStorage(Append(quotes, obj), store, FALSE)
             /\ failedSave' = failedSave
             /\ effects' = <<SetItem(FALSE), "POST", "alert">>
             /\ selectedCategory' = c
             /\ addPosts' = Append(addPosts, obj)
             /\ sent' = <<POST(obj)>>
             /\ notice' = [kind |-> "alert: Quote added successfully!", n |-> 0]
  /\ lastResp' = NoResp
  /\ lastSync' = NoSync
  /\ lastInput' = [kind |-> "form", text |-> text, category |-> category]
  /\ UNCHANGED <<filterStore, loaded, cycles, reads, acked, failedPush,
                 storageFull, exported, session, display, page>>

\* script.js:236-255
\* addQuote that returns while a syncQuotes cycle is in flight, as under a
\* sync lock taken at script.js:365
addQuote_BlockedBySync(text, category) ==
  /\ loaded
  /\ events < MaxEvents
  /\ events' = events + 1
  /\ lastAction' = "addQuote"
  /\ LET t == Trim(IF Falsy(text) THEN <<>> ELSE text.v)
         c == Trim(IF Falsy(category) THEN <<>> ELSE category.v)
         obj == Quote(t, c)
     IN IF t = <<>> \/ c = <<>>
        THEN /\ notice' = [kind |-> "alert: Please fill in both fields.", n |-> 0]
             /\ sent' = <<>>
             /\ effects' = <<"alert">>
             /\ UNCHANGED <<quotes, store, selectedCategory, addPosts, failedSave>>
        ELSE IF cycles # <<>>
        THEN /\ notice' = NoNotice
             /\ sent' = <<>>
             /\ effects' = <<>>
             /\ UNCHANGED <<quotes, store, selectedCategory, addPosts, failedSave>>
        ELSE /\ quotes' = Append(quotes, obj)
             /\ store' = saveQuotesToLocalStorage(Append(quotes, obj), store, storageFull)
             /\ failedSave' = failedSave
                                \cup NotWritten(Append(quotes, obj), store, storageFull)
             /\ effects' = <<SetItem(storageFull), "POST", "alert">>
             /\ selectedCategory' = c
             /\ addPosts' = Append(addPosts, obj)
             /\ sent' = <<POST(obj)>>
             /\ notice' = [kind |-> "alert: Quote added successfully!", n |-> 0]
  /\ lastResp' = NoResp
  /\ lastSync' = NoSync
  /\ lastInput' = [kind |-> "form", text |-> text, category |-> category]
  /\ UNCHANGED <<filterStore, loaded, cycles, reads, acked, failedPush,
                 storageFull, exported, session, display, page>>

addQuote(text, category) ==
  /\ loaded
  /\ events < MaxEvents
  /\ events' = events + 1
  /\ lastAction' = "addQuote"
  /\ LET t == Trim(IF Falsy(text) THEN <<>> ELSE text.v)
         c == Trim(IF Falsy(category) THEN <<>> ELSE category.v)
         obj == Quote(t, c)
     IN IF t = <<>> \/ c = <<>>
        THEN /\ notice' = [kind |-> "alert: Please fill in both fields.", n |-> 0]
             /\ sent' = <<>>
             /\ effects' = <<"alert">>
             /\ UNCHANGED <<quotes, store, selectedCategory, addPosts, failedSave>>
        ELSE /\ quotes' = Append(quotes, obj)
             /\ store' = saveQuotesToLocalStorage(Append(quotes, obj), store, storageFull)
             /\ failedSave' = failedSave
                                \cup NotWritten(Append(quotes, obj), store, storageFull)
             /\ effects' = <<SetItem(storageFull), "POST", "alert">>
             /\ selectedCategory' = c
             /\ addPosts' = Append(addPosts, obj)
             /\ sent' = <<POST(obj)>>
             /\ notice' = [kind |-> "alert: Quote added successfully!", n |-> 0]
  /\ lastResp' = NoResp
  /\ lastSync' = NoSync
  /\ lastInput' = [kind |-> "form", text |-> text, category |-> category]
  /\ UNCHANGED <<filterStore, loaded, cycles, reads, acked, failedPush,
                 storageFull, exported, session, display, page>>

\* AddPostResponse with a catch that takes the item back out of `quotes`
\* and saves (script.js:251-253)
AddPostResponse_Rollback(j, ok) ==
  /\ j \in 1..Len(addPosts)
  /\ addPosts' = RemoveAt(addPosts, j)
  /\ acked' = IF ok THEN acked \cup {addPosts[j]} ELSE acked
  /\ failedPush' = IF ok THEN failedPush ELSE failedPush \cup {addPosts[j]}
  /\ quotes' = IF ok THEN quotes ELSE Filter(quotes, {Key(addPosts[j])})
  /\ store' = IF ok THEN store
              ELSE saveQuotesToLocalStorage(Filter(quotes, {Key(addPosts[j])}),
                                            store, storageFull)
  /\ lastAction' = "AddPostResponse"
  /\ sent' = <<>>
  /\ notice' = NoNotice
  /\ lastResp' = [kind |-> IF ok THEN "posted" ELSE "postfailed", data |-> <<>>]
  /\ lastSync' = NoSync
  /\ effects' = IF ok THEN <<>> ELSE <<SetItem(storageFull)>>
  /\ lastInput' = NoInput
  /\ UNCHANGED <<selectedCategory, filterStore, loaded, cycles, reads, events,
                 storageFull, failedSave, exported, session, display, page>>

\* script.js:251-253: the POST issued by addQuote is answered or fails
AddPostResponse(j, ok) ==
  /\ j \in 1..Len(addPosts)
  /\ addPosts' = RemoveAt(addPosts, j)
  /\ acked' = IF ok THEN acked \cup {addPosts[j]} ELSE acked
  /\ failedPush' = IF ok THEN failedPush ELSE failedPush \cup {addPosts[j]}
  /\ lastAction' = "AddPostResponse"
  /\ sent' = <<>>
  /\ notice' = NoNotice
  /\ lastResp' = [kind |-> IF ok THEN "posted" ELSE "postfailed", data |-> <<>>]
  /\ lastSync' = NoSync
  /\ effects' = <<>>
  /\ lastInput' = NoInput
  /\ UNCHANGED <<quotes, selectedCategory, store, filterStore, loaded,
                 cycles, reads, events, storageFull, failedSave, exported,
                 session, display, page>>

\* script.js:280-286, 316: a click on an import button with a file chosen
\* starts reading the file
importFromJsonFile(replace, file) ==
  /\ loaded
  /\ events < MaxEvents
  /\ events' = events + 1
  /\ reads' = Append(reads, [replace |-> replace, result |-> file])
  /\ lastAction' = "importFromJsonFile"
  /\ sent' = <<>>
  /\ notice' = NoNotice
  /\ lastResp' = NoResp
  /\ lastSync' = NoSync
  /\ effects' = <<"readAsText">>
  /\ lastInput' = NoInput
  /\ UNCHANGED <<quotes, selectedCategory, store, filterStore, loaded,
                 cycles, addPosts, acked, failedPush, storageFull, failedSave,
                 exported, session, display, page>>

RECURSIVE ValidItems(_)
\* script.js:291-293: parsed.filter(isValidQuoteObject).map(...)
ValidItems(parsed) ==
  IF parsed = <<>> THEN <<>>
  ELSE IF isValidQuoteObject(Head(parsed))
       THEN <<[text |-> Head(parsed).text, category |-> Head(parsed).category]>>
            \o ValidItems(Tail(parsed))
       ELSE ValidItems(Tail(parsed))

RECURSIVE ImportLoop_NoSetAdd(_, _, _)
\* the forEach without existing.add(key) of script.js:302
ImportLoop_NoSetAdd(qs, existing, valid) ==
  IF valid = <<>> THEN qs
  ELSE LET q == Head(valid)
           key == Key(q)
       IN IF key \notin existing
          THEN ImportLoop_NoSetAdd(Append(qs, q), existing, Tail(valid))
          ELSE ImportLoop_NoSetAdd(qs, existing, Tail(valid))

RECURSIVE ImportLoop(_, _, _)
\* script.js:298-304: the forEach of the merge branch
ImportLoop(qs, existing, valid) ==
  IF valid = <<>> THEN qs
  ELSE LET q == Head(valid)
           key == Key(q)
       IN IF key \notin existing
          THEN ImportLoop(Append(qs, q), existing \cup {key}, Tail(valid))
          ELSE ImportLoop(qs, existing, Tail(valid))

\* importInto ignoring the replace flag: the merge branch in both modes
importInto_KeepLocal(qs, valid, replace) ==
  ImportLoop(qs, KeySet(qs), valid)

\* script.js:294-305: the collection after the import of the items valid
importInto(qs, valid, replace) ==
  IF replace THEN valid ELSE ImportLoop(qs, KeySet(qs), valid)

\* JSONparseArray treating a non-array as an empty array (no test of
\* script.js:290)
JSONparseArray_NoArrayTest(result) ==
  IF result.kind = "unparseable"
  THEN [threw |-> TRUE, parsed |-> <<>>]
  ELSE [threw |-> FALSE, parsed |-> result.arr]

\* script.js:289-290: JSON.parse(e.target.result) and the Array.isArray
\* test; threw is TRUE when either throws
JSONparseArray(result) ==
  IF result.kind # "array"
  THEN [threw |-> TRUE, parsed |-> <<>>]
  ELSE [threw |-> FALSE, parsed |-> result.arr]

\* script.js:287-315: reader.onload of the pending read j
ImportOnload(j) ==
  /\ j \in 1..Len(reads)
  /\ reads' = RemoveAt(reads, j)
  /\ lastAction' = "ImportOnload"
  /\ lastInput' = [kind |-> "file", replace |-> reads[j].replace,
                   result |-> reads[j].result]
  /\ sent' = <<>>
  /\ LET rd == reads[j]
         p == JSONparseArray(rd.result)
     IN IF p.threw
        THEN \* catch (script.js:311-314)
             /\ notice' = [kind |-> "alert: Invalid JSON file.", n |-> 0]
             /\ effects' = <<"console.error", "alert">>
             /\ UNCHANGED <<quotes, store, failedSave>>
        ELSE LET qs == importInto(quotes, ValidItems(p.parsed), rd.replace)
             IN /\ quotes' = qs
                /\ store' = saveQuotesToLocalStorage(qs, store, storageFull)
                /\ failedSave' = failedSave \cup NotWritten(qs, store, storageFull)
                /\ effects' = <<SetItem(storageFull), "alert">>
                /\ notice' = [kind |-> "alert: Imported quotes successfully.", n |-> 0]
  /\ lastResp' = NoResp
  /\ lastSync' = NoSync
  /\ UNCHANGED <<selectedCategory, filterStore, loaded, cycles, addPosts,
                 acked, failedPush, events, storageFull, exported,
                 session, display, page>>

Next ==
  \/ Startup
  \/ Reload
  \/ SyncTrigger
  \/ \E k \in 1..MaxCycles, resp \in Responses : SyncFetch(k, resp)
  \/ \E k \in 1..MaxCycles, ok \in BOOLEAN : SyncPush(k, ok)
  \/ \E in \in AddInputs : addQuote(in[1], in[2])
  \/ \E j \in 1..MaxEvents, ok \in BOOLEAN : AddPostResponse(j, ok)
  \/ \E replace \in BOOLEAN, file \in ImportFiles : importFromJsonFile(replace, file)
  \/ \E j \in 1..MaxEvents : ImportOnload(j)

Spec == Init /\ [][Next]_vars

----------------------------------------------------------------------------
(* The session whose localStorage may be full                              *)

\* The quota of localStorage gets exceeded (other pages of the origin fill
\* it) or room is made again: setItem throws from script.js:77 while full
StorageChange ==
  /\ events < MaxEvents
  /\ events' = events + 1
  /\ storageFull' = ~storageFull
  /\ lastAction' = "StorageChange"
  /\ sent' = <<>>
  /\ notice' = NoNotice
  /\ lastResp' = NoResp
  /\ lastSync' = NoSync
  /\ effects' = <<>>
  /\ lastInput' = NoInput
  /\ UNCHANGED <<quotes, selectedCategory, store, filterStore, loaded, cycles,
                 addPosts, reads, acked, failedPush, failedSave, exported,
                 session, display, page>>

InitQuota ==
  /\ quotes = <<>>
  /\ selectedCategory = All
  /\ \E st \in InitStorage : store = st[1] /\ filterStore = st[2]
  /\ loaded = FALSE
  /\ cycles = <<>>
  /\ addPosts = <<>>
  /\ reads = <<>>
  /\ lastAction = "init"
  /\ sent = <<>>
  /\ notice = NoNotice
  /\ lastResp = NoResp
  /\ lastSync = NoSync
  /\ acked = {}
  /\ failedPush = {}
  /\ events = 0
  /\ storageFull \in BOOLEAN
  /\ effects = <<>>
  /\ lastInput = NoInput
  /\ failedSave = {}
  /\ exported = NoFile
  /\ session = JNull
  /\ display = NoDisplay
  /\ page = "script.js"

NextQuota == Next \/ StorageChange

SpecQuota == InitQuota /\ [][NextQuota]_vars

----------------------------------------------------------------------------
(* The session opened on a store of PushBatch items                        *)

InitBatch ==
  /\ quotes = <<>>
  /\ selectedCategory = All
  /\ store = JSONstringify(StoredTen)
  /\ filterStore = JNull
  /\ loaded = FALSE
  /\ cycles = <<>>
  /\ addPosts = <<>>
  /\ reads = <<>>
  /\ lastAction = "init"
  /\ sent = <<>>
  /\ notice = NoNotice
  /\ lastResp = NoResp
  /\ lastSync = NoSync
  /\ acked = {}
  /\ failedPush = {}
  /\ events = 0
  /\ storageFull = FALSE
  /\ effects = <<>>
  /\ lastInput = NoInput
  /\ failedSave = {}
  /\ exported = NoFile
  /\ session = JNull
  /\ display = NoDisplay
  /\ page = "script.js"

SpecBatch == InitBatch /\ [][Next]_vars

----------------------------------------------------------------------------
(* Sessions with filterQuotes                                              *)

\* script.js:117-127: the values of the options of the dropdown, rebuilt by
\* populateCategories after every change of `quotes`
CategoryOptions == {All} \cup {quotes[i].category.v : i \in 1..Len(quotes)}

\* script.js:130-137: the change handler of the dropdown, the user having
\* chosen the option value; a failing setItem is swallowed by the catch
filterQuotes(value) ==
  /\ loaded
  /\ value \in CategoryOptions
  /\ selectedCategory' = value
  /\ filterStore' = IF storageFull THEN filterStore ELSE Str(value)
  /\ lastAction' = "filterQuotes"
  /\ sent' = <<>>
  /\ notice' = NoNotice
  /\ lastResp' = NoResp
  /\ lastSync' = NoSync
  /\ effects' = <<SetItem(storageFull)>>
  /\ lastInput' = [kind |-> "option", value |-> value]
  /\ UNCHANGED <<quotes, store, loaded, cycles, addPosts, reads, acked,
                 failedPush, events, storageFull, failedSave, exported,
                 session, display, page>>

\* The values the user may choose
FilterValues == {All, X, Y, ServerSync}

NextFilter ==
  \/ Next
  \/ \E value \in FilterValues : filterQuotes(value)

SpecFilter == Init /\ [][NextFilter]_vars

----------------------------------------------------------------------------
(* Sessions with exportQuotesToJson                                        *)

\* script.js:258-277: the whole of `quotes` is serialized into the file
\* downloaded; indentation apart, the text is that of JSON.stringify(quotes)
exportQuotesToJson ==
  /\ loaded
  /\ exported' = JSONstringify(quotes)
  /\ lastAction' = "exportQuotesToJson"
  /\ sent' = <<>>
  /\ notice' = NoNotice
  /\ lastResp' = NoResp
  /\ lastSync' = NoSync
  /\ effects' = <<"download">>
  /\ lastInput' = NoInput
  /\ UNCHANGED <<quotes, selectedCategory, store, filterStore, loaded, cycles,
                 addPosts, reads, acked, failedPush, events, storageFull,
                 failedSave, session, display, page>>

\* The user picks the file last downloaded for an import
NextExport ==
  \/ Next
  \/ exportQuotesToJson
  \/ \E replace \in BOOLEAN :
       exported # NoFile /\ importFromJsonFile(replace, exported)

SpecExport == Init /\ [][NextExport]_vars

----------------------------------------------------------------------------
(* Sessions of syncQuotes cycles and addQuote only                         *)

NextRace ==
  \/ Startup
  \/ SyncTrigger
  \/ \E k \in 1..MaxCycles, resp \in Responses : SyncFetch(k, resp)
  \/ \E k \in 1..MaxCycles, ok \in BOOLEAN : SyncPush(k, ok)
  \/ \E in \in AddInputs : addQuote(in[1], in[2])
  \/ \E j \in 1..MaxEvents, ok \in BOOLEAN : AddPostResponse(j, ok)

SpecRace == Init /\ [][NextRace]_vars

----------------------------------------------------------------------------
(* Sessions of periodic syncQuotes cycles against a fixed remote prefix    *)

\* The remote collection: a title, an empty title with a body, and a
\* title equal to that body
RemotePrefix ==
  <<Record(Str(A), Str(B), "1"),
    Record(Str(<<>>), Str(C), "2"),
    Record(Str(C), Undefined, "3")>>

OkResponses == { [kind |-> "ok", data |-> RemotePrefix] }

LiveResponses ==
  { [kind |-> "neterr", data |-> <<>>],
    [kind |-> "notok", data |-> RemotePrefix] } \cup OkResponses

\* localStorage is empty, or holds the store of a session that added
\* {A, X} and adopted the remote item A
InitLive ==
  /\ quotes = <<>>
  /\ selectedCategory = All
  /\ store \in {StoreAbsent, JSONstringify(<<Quote(A, X), Quote(A, ServerSync)>>)}
  /\ filterStore = JNull
  /\ loaded = FALSE
  /\ cycles = <<>>
  /\ addPosts = <<>>
  /\ reads = <<>>
  /\ lastAction = "init"
  /\ sent = <<>>
  /\ notice = NoNotice
  /\ lastResp = NoResp
  /\ lastSync = NoSync
  /\ acked = {}
  /\ failedPush = {}
  /\ events = 0
  /\ storageFull = FALSE
  /\ effects = <<>>
  /\ lastInput = NoInput
  /\ failedSave = {}
  /\ exported = NoFile
  /\ session = JNull
  /\ display = NoDisplay
  /\ page = "script.js"

NextLive ==
  \/ Startup
  \/ SyncTrigger
  \/ \E k \in 1..MaxCycles, resp \in LiveResponses : SyncFetch(k, resp)
  \/ \E k \in 1..MaxCycles, ok \in BOOLEAN : SyncPush(k, ok)

\* The page loads and setInterval keeps calling syncQuotes (script.js:71)
Ticks == Startup \/ SyncTrigger

\* A POST awaited by a cycle is answered or fails
PushCompletes == \E k \in 1..MaxCycles, ok \in BOOLEAN : SyncPush(k, ok)

\* A GET awaited by a cycle is answered with a successful response
FetchSucceeds == \E k \in 1..MaxCycles, resp \in OkResponses : SyncFetch(k, resp)

\* Ticks keep coming, the POST a cycle awaits completes, and among the
\* fetches successful ones keep occurring
SpecLive ==
  /\ InitLive
  /\ [][NextLive]_vars
  /\ WF_vars(Ticks)
  /\ WF_vars(PushCompletes)
  /\ SF_vars(FetchSucceeds)

----------------------------------------------------------------------------
(* Sessions of syncQuotes cycles against a remote collection of more than  *)
(* FetchLimit records                                                      *)

\* FetchLimit records: those of RemotePrefix, then distinct titles
RemoteTen ==
  RemotePrefix
    \o [i \in 1..(FetchLimit - Len(RemotePrefix)) |->
         Record(Str(<<"T", ToString(i + Len(RemotePrefix))>>), Str(B),
                ToString(i + Len(RemotePrefix)))]

\* The responses: a failure, fewer than FetchLimit records, FetchLimit
\* records, and FetchLimit records followed by one record or by null and a
\* record
SliceResponses ==
  { [kind |-> "neterr", data |-> <<>>],
    [kind |-> "ok", data |-> RemotePrefix],
    [kind |-> "ok", data |-> RemoteTen],
    [kind |-> "ok", data |-> RemoteTen \o <<Record(Str(Z), Str(B), "11")>>],
    [kind |-> "ok", data |-> RemoteTen \o <<JNull, Record(Str(Y), Str(B), "12")>>] }

NextSlice ==
  \/ Startup
  \/ SyncTrigger
  \/ \E k \in 1..MaxCycles, resp \in SliceResponses : SyncFetch(k, resp)
  \/ \E k \in 1..MaxCycles, ok \in BOOLEAN : SyncPush(k, ok)

SpecSlice == InitLive /\ [][NextSlice]_vars

----------------------------------------------------------------------------
(* mergeServerIntoLocal on arbitrary collections and batches               *)

\* Items of the collections and of the batches.  The keys of {A, X||Y} and
\* {A||X, Y} coincide; the remote {C, Z} carries an id.
MergeLocalItems ==
  { Quote(A, X), Quote(B, Y), Quote(<<"A", "|", "|", "X">>, Y) }

MergeRemoteItems ==
  { Quote(A, X), Quote(A, <<"X", "|", "|", "Y">>),
    Quote(<<"A", "|", "|", "X">>, Y),
    [text |-> Str(C), category |-> Str(Z), id |-> Num(<<"1">>)] }

SeqsUpTo(S, n) == UNION {[1..m -> S] : m \in 0..n}

InitMerge ==
  /\ quotes \in SeqsUpTo(MergeLocalItems, MaxLocal)
  /\ selectedCategory = All
  /\ store = StoreAbsent
  /\ filterStore = JNull
  /\ loaded = TRUE
  /\ cycles = <<>>
  /\ addPosts = <<>>
  /\ reads = <<>>
  /\ lastAction = "init"
  /\ sent = <<>>
  /\ notice = NoNotice
  /\ lastResp = NoResp
  /\ lastSync = NoSync
  /\ acked = {}
  /\ failedPush = {}
  /\ events = 0
  /\ storageFull = FALSE
  /\ effects = <<>>
  /\ lastInput = NoInput
  /\ failedSave = {}
  /\ exported = NoFile
  /\ session = JNull
  /\ display = NoDisplay
  /\ page = "script.js"

\* A call mergeServerIntoLocal(serverQuotes) on the current collection
MergeCall(serverQuotes) ==
  /\ LET m == mergeServerIntoLocal(quotes, serverQuotes)
     IN /\ quotes' = m.quotes
        /\ lastSync' = [set |-> TRUE, serverQuotes |-> serverQuotes,
                        added |-> m.added, batch |-> <<>>]
  /\ lastAction' = "MergeCall"
  /\ UNCHANGED <<selectedCategory, store, filterStore, loaded, cycles,
                 addPosts, reads, sent, notice, lastResp, acked, failedPush,
                 events, storageFull, effects, lastInput, failedSave, exported,
                 session, display, page>>

NextMerge == \E serverQuotes \in SeqsUpTo(MergeRemoteItems, MaxBatch) : MergeCall(serverQuotes)

SpecMerge == InitMerge /\ [][NextMerge]_vars

----------------------------------------------------------------------------
(* loadQuotesFromLocalStorage on arbitrary stored values                   *)

\* Elements of a stored array: valid items, an item of blank text, an item
\* whose text is a number, an item without category, and null
StoredItems ==
  { Quote(A, X), Quote(B, Y), Quote(<<" ">>, X),
    [text |-> Num(<<"5">>), category |-> Str(X)],
    [text |-> Str(A), category |-> Undefined],
    JNull }

\* The value under LOCAL_KEY_FILTER: absent, or the category X saved by a
\* former session; the key is not rewritten when the collection changes,
\* so it is found next to any stored collection
StoredFilters == {JNull, Str(X)}

InitLoad ==
  /\ quotes = <<>>
  /\ selectedCategory = All
  /\ store \in {StoreAbsent, StoreUnparseable, StoreNonArray}
                \cup {JSONstringify(arr) : arr \in SeqsUpTo(StoredItems, MaxStored)}
  /\ filterStore \in StoredFilters
  /\ loaded = FALSE
  /\ cycles = <<>>
  /\ addPosts = <<>>
  /\ reads = <<>>
  /\ lastAction = "init"
  /\ sent = <<>>
  /\ notice = NoNotice
  /\ lastResp = NoResp
  /\ lastSync = NoSync
  /\ acked = {}
  /\ failedPush = {}
  /\ events = 0
  /\ storageFull = FALSE
  /\ effects = <<>>
  /\ lastInput = NoInput
  /\ failedSave = {}
  /\ exported = NoFile
  /\ session = JNull
  /\ display = NoDisplay
  /\ page = "script.js"

SpecLoad == InitLoad /\ [][Startup]_vars

----------------------------------------------------------------------------
(* reader.onload on arbitrary collections and files                        *)

\* Elements of an imported array: valid items, one of them with a further
\* property, an item of blank text, an item without category, and null
FileItems ==
  { Quote(A, X), Quote(B, Y),
    [text |-> Str(C), category |-> Str(Z), id |-> Num(<<"1">>)],
    Quote(<<" ">>, X),
    [text |-> Str(C), category |-> Undefined],
    JNull }

\* The text of a file that holds the JSON array arr
ArrayFile(arr) == [kind |-> "array", arr |-> arr]

\* A loaded session with one file read pending, in either mode
InitImport ==
  /\ quotes \in SeqsUpTo(MergeLocalItems, MaxLocal)
  /\ selectedCategory = All
  /\ store = JSONstringify(quotes)
  /\ filterStore = JNull
  /\ loaded = TRUE
  /\ cycles = <<>>
  /\ addPosts = <<>>
  /\ \E replace \in BOOLEAN :
       \E file \in {StoreUnparseable, StoreNonArray}
                    \cup {ArrayFile(arr) : arr \in SeqsUpTo(FileItems, MaxBatch)} :
         reads = <<[replace |-> replace, result |-> file]>>
  /\ lastAction = "init"
  /\ sent = <<>>
  /\ notice = NoNotice
  /\ lastResp = NoResp
  /\ lastSync = NoSync
  /\ acked = {}
  /\ failedPush = {}
  /\ events = 0
  /\ storageFull = FALSE
  /\ effects = <<>>
  /\ lastInput = NoInput
  /\ failedSave = {}
  /\ exported = NoFile
  /\ session = JNull
  /\ display = NoDisplay
  /\ page = "script.js"

NextImport == \E j \in 1..MaxEvents : ImportOnload(j)

SpecImport == InitImport /\ [][NextImport]_vars

----------------------------------------------------------------------------
(* isValidQuoteObject on arbitrary values                                  *)

\* Values of a property: the strings of white space and letters up to
\* MaxLen characters, a number, null, and undefined for a missing property
PropertyValues ==
  {Str(s) : s \in SeqsUpTo({" ", "A"}, MaxLen)}
    \cup {Num(<<"5">>), JNull, Undefined}

\* The arguments: null and the objects over PropertyValues
Candidates ==
  {JNull} \cup [text : PropertyValues, category : PropertyValues]

InitValidate ==
  /\ Init
  /\ store = StoreAbsent

\* A call isValidQuoteObject(obj); the truthiness of the value returned is
\* recorded in notice
ValidateCall(obj) ==
  /\ lastInput' = [kind |-> "object", obj |-> obj]
  /\ notice' = [kind |-> IF isValidQuoteObject(obj) THEN "truthy" ELSE "falsy",
                n |-> 0]
  /\ lastAction' = "ValidateCall"
  /\ UNCHANGED <<quotes, selectedCategory, store, filterStore, loaded, cycles,
                 addPosts, reads, sent, lastResp, lastSync, acked, failedPush,
                 events, storageFull, effects, failedSave, exported,
                 session, display, page>>

NextValidate == \E obj \in Candidates : ValidateCall(obj)

SpecValidate == InitValidate /\ [][NextValidate]_vars

----------------------------------------------------------------------------
(* The variant src/dom-manipulation/3-script.js                            *)

\* 3-script.js:297  category: "ServerSync"
V3_ServerSync == <<"ServerSync">>

\* q.text + q.category  (3-script.js:264, 266, 321, 323)
V3_Key(q) == q.text.v \o q.category.v

V3_KeySet(qs) == {V3_Key(qs[i]) : i \in 1..Len(qs)}

\* 3-script.js:87-103: the collection and the store after the load of the
\* stored value d
V3_loadQuotesFromLocalStorage(d) ==
  IF d.kind = "array" /\ \A i \in 1..Len(d.arr) : isValidQuoteObject(d.arr[i])
  THEN [quotes |-> d.arr, store |-> d]
  ELSE [quotes |-> defaultQuotes, store |-> JSONstringify(defaultQuotes)]

\* 3-script.js:291-299: no test of res.ok; threw is TRUE when fetch or
\* res.json() rejects or a record of the prefix is null
V3_fetchQuotesFromServer(resp) ==
  IF resp.kind \in {"neterr", "badjson"}
       \/ \E i \in 1..Min(FetchLimit, Len(resp.data)) : resp.data[i] = JNull
  THEN [threw |-> TRUE, value |-> <<>>]
  ELSE [threw |-> FALSE,
        value |-> [i \in 1..Min(FetchLimit, Len(resp.data)) |->
                     [text |-> resp.data[i].title,
                      category |-> Str(V3_ServerSync)]]]

RECURSIVE V3_SyncLoop(_, _, _)
\* 3-script.js:322-328: the forEach over serverQuotes; localMap is the Map
\* built at line 321, which the loop only reads
V3_SyncLoop(qs, localMap, serverQuotes) ==
  IF serverQuotes = <<>> THEN qs
  ELSE LET sq == Head(serverQuotes)
       IN IF V3_Key(sq) \notin localMap
          THEN V3_SyncLoop(Append(qs, sq), localMap, Tail(serverQuotes))
          ELSE V3_SyncLoop(qs, localMap, Tail(serverQuotes))

RECURSIVE V3_ImportLoop(_, _, _)
\* 3-script.js:265-267: the forEach of the merge branch; existing is the Set
\* built at line 264, which the loop only reads
V3_ImportLoop(qs, existing, valid) ==
  IF valid = <<>> THEN qs
  ELSE LET q == Head(valid)
       IN IF V3_Key(q) \notin existing
          THEN V3_ImportLoop(Append(qs, q), existing, Tail(valid))
          ELSE V3_ImportLoop(qs, existing, Tail(valid))

\* 3-script.js:261-268: the collection after the import of the items valid
V3_importInto(qs, valid, replace) ==
  IF replace THEN valid ELSE V3_ImportLoop(qs, V3_KeySet(qs), valid)

\* What localStorage may hold under LOCAL_KEY when the page is opened
V3_InitStorage ==
  { StoreAbsent, StoreUnparseable,
    JSONstringify(<<>>),
    JSONstringify(<<Quote(A, X)>>),
    JSONstringify(<<Quote(A, <<"X", "Y">>), Quote(B, V3_ServerSync)>>) }

\* The responses of the server to GET: records of the titles A, A; of the
\* titles A, B and a missing title; a response that is not ok
V3_Responses ==
  { [kind |-> "neterr", data |-> <<>>],
    [kind |-> "notok", data |-> <<Record(Str(C), Str(<<>>), "1")>>],
    [kind |-> "ok", data |-> <<Record(Str(A), Str(B), "1"),
                               Record(Str(A), Str(C), "2")>>],
    [kind |-> "ok", data |-> <<Record(Str(A), Str(B), "1"),
                               Record(Str(B), Str(C), "2"),
                               Record(Undefined, Str(C), "3")>>] }

\* The file contents offered to import.  {A, XY} and {AX, Y} concatenate to
\* the same key.
V3_ImportFiles ==
  { StoreUnparseable, StoreNonArray,
    JSONstringify(<<Quote(A, X), Quote(A, X)>>),
    JSONstringify(<<Quote(B, Y), JNull,
                    [text |-> Str(C), category |-> Undefined]>>),
    JSONstringify(<<Quote(<<"A", "X">>, Y), Quote(B, Y)>>) }

V3_Init ==
  /\ quotes = <<>>
  /\ selectedCategory = All
  /\ store \in V3_InitStorage
  /\ filterStore = JNull
  /\ loaded = FALSE
  /\ cycles = <<>>
  /\ addPosts = <<>>
  /\ reads = <<>>
  /\ lastAction = "init"
  /\ sent = <<>>
  /\ notice = NoNotice
  /\ lastResp = NoResp
  /\ lastSync = NoSync
  /\ acked = {}
  /\ failedPush = {}
  /\ events = 0
  /\ storageFull = FALSE
  /\ effects = <<>>
  /\ lastInput = NoInput
  /\ failedSave = {}
  /\ exported = NoFile
  /\ session = JNull
  /\ display = NoDisplay
  /\ page = "3-script.js"

\* 3-script.js:59-80: the DOMContentLoaded handler, up to the first await of
\* the syncWithServer() call startPeriodicSync makes (line 286)
V3_Startup ==
  /\ ~loaded
  /\ LET r == V3_loadQuotesFromLocalStorage(store)
     IN /\ quotes' = r.quotes
        /\ store' = r.store
        /\ effects' = (IF r.store # store THEN <<"setItem">> ELSE <<>>) \o <<"GET">>
  /\ loaded' = TRUE
  /\ cycles' = <<FetchingCycle>>
  /\ sent' = <<GET>>
  /\ lastAction' = "V3_Startup"
  /\ notice' = NoNotice
  /\ lastResp' = NoResp
  /\ lastSync' = NoSync
  /\ lastInput' = NoInput
  /\ UNCHANGED <<selectedCategory, filterStore, addPosts, reads, acked,
                 failedPush, events, storageFull, failedSave, exported,
                 session, display, page>>

\* 3-script.js:287: the interval timer calls syncWithServer(), which runs to
\* the await of line 292; nothing keeps two calls from overlapping
V3_Tick ==
  /\ loaded
  /\ Len(cycles) < MaxCycles
  /\ cycles' = Append(cycles, FetchingCycle)
  /\ sent' = <<GET>>
  /\ lastAction' = "V3_Tick"
  /\ notice' = NoNotice
  /\ lastResp' = NoResp
  /\ lastSync' = NoSync
  /\ effects' = <<"GET">>
  /\ lastInput' = NoInput
  /\ UNCHANGED <<quotes, selectedCategory, store, filterStore, loaded,
                 addPosts, reads, acked, failedPush, events, storageFull,
                 failedSave, exported, session, display, page>>

\* 3-script.js:316-339: the call k of syncWithServer() is resumed with the
\* response resp and runs to its end
syncWithServer(k, resp) ==
  /\ k \in 1..Len(cycles)
  /\ cycles' = RemoveAt(cycles, k)
  /\ lastResp' = resp
  /\ lastAction' = "syncWithServer"
  /\ sent' = <<>>
  /\ LET r == V3_fetchQuotesFromServer(resp)
     IN IF r.threw
        THEN \* catch (3-script.js:336-338)
             /\ notice' = NoNotice
             /\ lastSync' = NoSync
             /\ effects' = <<"console.warn">>
             /\ UNCHANGED <<quotes, store>>
        ELSE LET qs == V3_SyncLoop(quotes, V3_KeySet(quotes), r.value)
                 updated == qs # quotes
             IN /\ quotes' = qs
                /\ store' = IF updated /\ ~storageFull THEN JSONstringify(qs) ELSE store
                /\ effects' = IF ~updated THEN <<>>
                              ELSE IF storageFull THEN <<"setItem throws", "console.warn">>
                              ELSE <<"setItem", "notify">>
                /\ notice' = IF updated /\ ~storageFull
                             THEN [kind |-> "Server data synced. New quotes added.", n |-> 0]
                             ELSE NoNotice
                /\ lastSync' = [set |-> TRUE, serverQuotes |-> r.value,
                                added |-> Len(qs) - Len(quotes), batch |-> <<>>]
  /\ lastInput' = NoInput
  /\ UNCHANGED <<selectedCategory, filterStore, loaded, addPosts, reads,
                 acked, failedPush, events, storageFull, failedSave, exported,
                 session, display, page>>

\* 3-script.js:249-256, 277: the click on an import button starts the read
\* of the chosen file
V3_importFromJsonFile(replace, file) ==
  /\ loaded
  /\ events < MaxEvents
  /\ events' = events + 1
  /\ reads' = Append(reads, [replace |-> replace, result |-> file])
  /\ lastAction' = "V3_importFromJsonFile"
  /\ sent' = <<>>
  /\ notice' = NoNotice
  /\ lastResp' = NoResp
  /\ lastSync' = NoSync
  /\ effects' = <<"readAsText">>
  /\ lastInput' = NoInput
  /\ UNCHANGED <<quotes, selectedCategory, store, filterStore, loaded,
                 cycles, addPosts, acked, failedPush, storageFull,
                 failedSave, exported, session, display, page>>

\* 3-script.js:257-276: reader.onload of the pending read j.  JSON.parse
\* throws on a text that is no JSON, parsed.filter on a value that is no
\* array, setItem on a full store: the catch of line 274 alerts in all three
V3_ImportOnload(j) ==
  /\ j \in 1..Len(reads)
  /\ reads' = RemoveAt(reads, j)
  /\ lastAction' = "V3_ImportOnload"
  /\ lastInput' = [kind |-> "file", replace |-> reads[j].replace,
                   result |-> reads[j].result]
  /\ sent' = <<>>
  /\ LET rd == reads[j]
     IN IF rd.result.kind # "array"
        THEN /\ notice' = [kind |-> "alert: Invalid JSON file!", n |-> 0]
             /\ effects' = <<"alert">>
             /\ UNCHANGED <<quotes, store>>
        ELSE LET qs == V3_importInto(quotes,
                                     SelectSeq(rd.result.arr, isValidQuoteObject),
                                     rd.replace)
             IN /\ quotes' = qs
                /\ store' = IF storageFull THEN store ELSE JSONstringify(qs)
                /\ effects' = IF storageFull THEN <<"setItem throws", "alert">>
                              ELSE <<"setItem", "notify">>
                /\ notice' = IF storageFull
                             THEN [kind |-> "alert: Invalid JSON file!", n |-> 0]
                             ELSE [kind |-> "Quotes imported successfully!", n |-> 0]
  /\ lastResp' = NoResp
  /\ lastSync' = NoSync
  /\ UNCHANGED <<selectedCategory, filterStore, loaded, cycles, addPosts,
                 acked, failedPush, events, storageFull, failedSave, exported,
                 session, display, page>>

V3_Next ==
  \/ V3_Startup
  \/ V3_Tick
  \/ \E k \in 1..MaxCycles, resp \in V3_Responses : syncWithServer(k, resp)
  \/ \E replace \in BOOLEAN, file \in V3_ImportFiles : V3_importFromJsonFile(replace, file)
  \/ \E j \in 1..MaxEvents : V3_ImportOnload(j)

V3_Spec == V3_Init /\ [][V3_Next]_vars

----------------------------------------------------------------------------
(* The id-keyed variant src/unnamed/part_003                               *)

\* part_003:29  category: "Server Data"
P3_ServerData == <<"Server", " ", "Data">>

\* An item of part_003: id is undefined when the property is missing
P3_Item(t, c, id) == [text |-> Str(t), category |-> Str(c), id |-> id]

\* part_003:15  JSON.stringify(quotes)
P3_JSONstringify(qs) ==
  [kind |-> "array",
   arr |-> [i \in 1..Len(qs) |->
              [text |-> StringifyValue(qs[i].text),
               category |-> StringifyValue(qs[i].category),
               id |-> StringifyValue(qs[i].id)]]]

\* part_003:1  JSON.parse(localStorage.getItem("quotes")) || []
P3_load(d) == IF d.kind = "array" THEN d.arr ELSE <<>>

\* part_003:21-31: no test of res.ok; threw is TRUE when fetch or res.json()
\* rejects or a record is null
P3_formatted(resp) ==
  IF resp.kind \in {"neterr", "badjson"}
       \/ \E i \in 1..Len(resp.data) : resp.data[i] = JNull
  THEN [threw |-> TRUE, value |-> <<>>]
  ELSE [threw |-> FALSE,
        value |-> [i \in 1..Len(resp.data) |->
                     [text |-> resp.data[i].title,
                      category |-> Str(P3_ServerData),
                      id |-> resp.data[i].id]]]

RECURSIVE P3_ResolveLoop(_, _, _)
\* part_003:59-63: the forEach over serverQuotes; localIds is the Set built
\* at line 56
P3_ResolveLoop(qs, localIds, serverQuotes) ==
  IF serverQuotes = <<>> THEN qs
  ELSE LET sq == Head(serverQuotes)
       IN IF sq.id \notin localIds
          THEN P3_ResolveLoop(Append(qs, sq), localIds, Tail(serverQuotes))
          ELSE P3_ResolveLoop(qs, localIds, Tail(serverQuotes))

\* resolveConflicts letting the server item take the place of the local item
\* of the same id ("server data takes precedence", part_003:54)
resolveConflicts_ServerWins(qs, serverQuotes) ==
  LET Hit(i) == {j \in 1..Len(serverQuotes) : serverQuotes[j].id = qs[i].id}
      replaced == [i \in 1..Len(qs) |->
                     IF Hit(i) = {} THEN qs[i]
                     ELSE serverQuotes[CHOOSE j \in Hit(i) : \A h \in Hit(i) : j <= h]]
  IN P3_ResolveLoop(replaced, {qs[i].id : i \in 1..Len(qs)}, serverQuotes)

\* part_003:55-63: the collection after resolveConflicts(serverQuotes)
resolveConflicts(qs, serverQuotes) ==
  P3_ResolveLoop(qs, {qs[i].id : i \in 1..Len(qs)}, serverQuotes)

\* What localStorage may hold under "quotes" when the page is opened: an
\* item holding the id 1, an item without id beside one holding the id 2
P3_InitStorage ==
  { StoreAbsent,
    P3_JSONstringify(<<P3_Item(A, X, Num(<<"1">>))>>),
    P3_JSONstringify(<<P3_Item(A, X, Undefined), P3_Item(B, Y, Num(<<"2">>))>>) }

\* The responses of the server to GET: the ids 1, 2; the id 1 twice; a
\* response that is not ok; a record without id
P3_Responses ==
  { [kind |-> "neterr", data |-> <<>>],
    [kind |-> "notok", data |-> <<Record(Str(C), Str(<<>>), "3")>>],
    [kind |-> "ok", data |-> <<Record(Str(C), Str(B), "1"),
                               Record(Str(B), Str(C), "2")>>],
    [kind |-> "ok", data |-> <<Record(Str(A), Str(B), "1"),
                               Record(Str(C), Str(B), "1")>>],
    [kind |-> "ok", data |-> <<[title |-> Str(Z), body |-> Str(B), id |-> Undefined]>>] }

\* The state once the script has run: part_003:1 has read the store
P3_Init ==
  /\ store \in P3_InitStorage
  /\ quotes = P3_load(store)
  /\ selectedCategory = All
  /\ filterStore = JNull
  /\ loaded = FALSE
  /\ cycles = <<>>
  /\ addPosts = <<>>
  /\ reads = <<>>
  /\ lastAction = "init"
  /\ sent = <<>>
  /\ notice = NoNotice
  /\ lastResp = NoResp
  /\ lastSync = NoSync
  /\ acked = {}
  /\ failedPush = {}
  /\ events = 0
  /\ storageFull = FALSE
  /\ effects = <<>>
  /\ lastInput = NoInput
  /\ failedSave = {}
  /\ exported = NoFile
  /\ session = JNull
  /\ display = NoDisplay
  /\ page = "part_003"

\* part_003:144-150: window.onload, up to the await of the fetchFromServer()
\* call it makes.  Assigning a value no option has leaves the select empty.
P3_Onload ==
  /\ ~loaded
  /\ loaded' = TRUE
  /\ LET last == IF filterStore.t = "string" /\ filterStore.v # <<>>
                 THEN filterStore.v ELSE All
     IN selectedCategory' =
          IF last \in {All} \cup {quotes[i].category.v : i \in 1..Len(quotes)}
          THEN last ELSE <<>>
  /\ cycles' = <<FetchingCycle>>
  /\ sent' = <<GET>>
  /\ lastAction' = "P3_Onload"
  /\ notice' = NoNotice
  /\ lastResp' = NoResp
  /\ lastSync' = NoSync
  /\ effects' = <<"GET">>
  /\ lastInput' = NoInput
  /\ UNCHANGED <<quotes, store, filterStore, addPosts, reads, acked,
                 failedPush, events, storageFull, failedSave, exported,
                 session, display, page>>

\* part_003:153: the interval timer calls fetchFromServer(), which runs to
\* the await of line 21.  lastSync keeps the batch of the sync that ran
\* before the tick.
P3_Tick ==
  /\ loaded
  /\ Len(cycles) < MaxCycles
  /\ cycles' = Append(cycles, FetchingCycle)
  /\ sent' = <<GET>>
  /\ lastAction' = "P3_Tick"
  /\ notice' = NoNotice
  /\ lastResp' = NoResp
  /\ effects' = <<"GET">>
  /\ lastInput' = NoInput
  /\ UNCHANGED <<quotes, selectedCategory, store, filterStore, loaded,
                 addPosts, reads, lastSync, acked, failedPush, events,
                 storageFull, failedSave, exported, session, display, page>>

\* part_003:19-37, 55-68: the call k of fetchFromServer() is resumed with
\* the response resp and runs to its end.  lastInput tells whether the batch
\* is that of the sync that ran before.
fetchFromServer(k, resp) ==
  /\ k \in 1..Len(cycles)
  /\ cycles' = RemoveAt(cycles, k)
  /\ lastResp' = resp
  /\ lastAction' = "fetchFromServer"
  /\ sent' = <<>>
  /\ LET r == P3_formatted(resp)
     IN IF r.threw
        THEN \* catch (part_003:34-36)
             /\ notice' = NoNotice
             /\ effects' = <<"console.error">>
             /\ lastInput' = NoInput
             /\ lastSync' = NoSync
             /\ UNCHANGED <<quotes, store>>
        ELSE LET qs == resolveConflicts(quotes, r.value)
             IN /\ quotes' = qs
                /\ store' = IF storageFull THEN store ELSE P3_JSONstringify(qs)
                /\ effects' = IF storageFull THEN <<"setItem throws", "console.error">>
                              ELSE <<"setItem", "notify">>
                /\ notice' = IF storageFull THEN NoNotice
                             ELSE [kind |-> "Data synced with server (server data prioritized).",
                                   n |-> 0]
                /\ lastSync' = [set |-> TRUE, serverQuotes |-> r.value,
                                added |-> Len(qs) - Len(quotes), batch |-> <<>>]
                /\ lastInput' = [kind |-> "batch",
                                 repeated |-> lastSync.set /\ lastSync.serverQuotes = r.value]
  /\ UNCHANGED <<selectedCategory, filterStore, loaded, addPosts, reads,
                 acked, failedPush, events, storageFull, failedSave, exported,
                 session, display, page>>

\* part_003:104-124: the inputs are trimmed, the id is Date.now(), a number
\* no earlier item holds.  The continuation of postToServer only logs.
P3_addQuote(text, category) ==
  /\ loaded
  /\ events < MaxEvents
  /\ events' = events + 1
  /\ lastAction' = "P3_addQuote"
  /\ lastInput' = [kind |-> "form", text |-> text, category |-> category]
  /\ lastResp' = NoResp
  /\ lastSync' = NoSync
  /\ LET t == Trim(text.v)
         c == Trim(category.v)
     IN IF t = <<>> \/ c = <<>>
        THEN /\ notice' = [kind |-> "alert: Please enter both quote and category!", n |-> 0]
             /\ effects' = <<"alert">>
             /\ sent' = <<>>
             /\ UNCHANGED <<quotes, store>>
        ELSE LET newQuote == P3_Item(t, c, Num(<<"now", ToString(events)>>))
                 qs == Append(quotes, newQuote)
             IN /\ quotes' = qs
                /\ store' = IF storageFull THEN store ELSE P3_JSONstringify(qs)
                /\ sent' = IF storageFull THEN <<>> ELSE <<POST(newQuote)>>
                /\ effects' = IF storageFull THEN <<"setItem throws">>
                              ELSE <<"setItem", "POST", "notify">>
                /\ notice' = IF storageFull THEN NoNotice
                             ELSE [kind |-> "Quote added and synced to server!", n |-> 0]
  /\ UNCHANGED <<selectedCategory, filterStore, loaded, cycles, addPosts,
                 reads, acked, failedPush, storageFull, failedSave, exported,
                 session, display, page>>

P3_Next ==
  \/ P3_Onload
  \/ P3_Tick
  \/ \E k \in 1..MaxCycles, resp \in P3_Responses : fetchFromServer(k, resp)
  \/ \E in \in AddInputs : P3_addQuote(in[1], in[2])

P3_Spec == P3_Init /\ [][P3_Next]_vars

----------------------------------------------------------------------------
(* The last-viewed item: script.js and the variant src/unnamed/part_000    *)

\* JSON.stringify(chosen) read back by JSON.parse  (script.js:205, 185)
StringifyItem(q) ==
  [text |-> StringifyValue(q.text), category |-> StringifyValue(q.category)]

\* script.js:194-197: the list showRandomQuote draws from
ViewList(qs, selected) ==
  IF selected = All THEN qs
  ELSE SelectSeq(qs, LAMBDA q : q.category = Str(selected))

\* script.js:193-207: Math.random picks the item i of the list; ok tells
\* whether sessionStorage.setItem succeeds (the catch swallows a failure)
showRandomQuote(i, ok) ==
  /\ page = "script.js"
  /\ loaded
  /\ LET list == ViewList(quotes, selectedCategory)
     IN IF list = <<>>
        THEN /\ i = 1 /\ ok
             /\ display' = EmptyDisplay
             /\ effects' = <<>>
             /\ UNCHANGED session
        ELSE /\ i \in 1..Len(list)
             /\ display' = Shown(list[i])
             /\ session' = IF ok THEN StringifyItem(list[i]) ELSE session
             /\ effects' = <<IF ok THEN "session.setItem" ELSE "session.setItem throws">>
  /\ lastAction' = "showRandomQuote"
  /\ lastInput' = [kind |-> "random", i |-> i]
  /\ sent' = <<>>
  /\ notice' = NoNotice
  /\ lastResp' = NoResp
  /\ lastSync' = NoSync
  /\ UNCHANGED <<quotes, selectedCategory, store, filterStore, loaded, cycles,
                 addPosts, reads, acked, failedPush, events, storageFull,
                 failedSave, exported, page>>

\* The categories of the model in the order of localeCompare
P0_Sorted ==
  << <<"Happiness">>, <<"Inspiration">>, <<"Motivation">>, <<"Success">>, X, Y, Z >>

P0_Categories(qs) == {qs[i].category.v : i \in 1..Len(qs)}

\* part_000:121-145: the value of the dropdown after populateCategories, prev
\* being its value before: prev if it still is a category, else the first
\* category in sorted order, else the empty value of a select without option
P0_populateCategories(qs, prev) ==
  LET cats == P0_Categories(qs)
  IN IF prev # <<>> /\ prev \in cats THEN prev
     ELSE IF cats # {}
          THEN P0_Sorted[CHOOSE n \in 1..Len(P0_Sorted) :
                           /\ P0_Sorted[n] \in cats
                           /\ \A m \in 1..(n - 1) : P0_Sorted[m] \notin cats]
          ELSE <<>>

\* part_000:148-155: the value under LOCAL_KEY_FILTER after
\* saveSelectedCategory, fs being the value before it
P0_saveSelectedCategory(value, fs, full) == IF full THEN fs ELSE Str(value)

\* part_000:83-107: as script.js:83-103
P0_loadQuotesFromLocalStorage(d, full) ==
  IF d.kind = "array" /\ \A i \in 1..Len(d.arr) : isValidQuoteObject(d.arr[i])
  THEN [quotes |-> d.arr, store |-> d]
  ELSE [quotes |-> defaultQuotes,
        store |-> IF full THEN d ELSE JSONstringify(defaultQuotes)]

\* part_000:210-213  text: `(${parsed.category} placeholder)`
P0_Placeholder(parsed) ==
  [text |-> Str(<<"(">> \o parsed.category.v \o <<" ", "placeholder)">>),
   category |-> parsed.category]

\* q.text.startsWith("(")
P0_StartsWithParen(q) == q.text.v # <<>> /\ Head(q.text.v) = "("

\* restoreLastViewedQuote pushing the placeholder without the filter of
\* part_000:214-216
P0_restoreLastViewedQuote_KeepPlaceholder(qs, raw) ==
  IF raw = JNull \/ ~isValidQuoteObject(raw) THEN qs
  ELSE IF \E i \in 1..Len(qs) : qs[i].category = raw.category THEN qs
  ELSE Append(qs, P0_Placeholder(raw))

\* part_000:201-217: the collection after restoreLastViewedQuote, raw being
\* the value under SESSION_KEY_LAST
P0_restoreLastViewedQuote(qs, raw) ==
  IF raw = JNull \/ ~isValidQuoteObject(raw) THEN qs
  ELSE IF \E i \in 1..Len(qs) : qs[i].category = raw.category THEN qs
  ELSE SelectSeq(Append(qs, P0_Placeholder(raw)),
                 LAMBDA q : ~(P0_StartsWithParen(q) /\ q.category = raw.category))

\* What localStorage may hold under LOCAL_KEY when the page is opened; the
\* text of the last item starts with "("
P0_InitStorage ==
  { StoreAbsent, StoreUnparseable,
    JSONstringify(<<>>),
    JSONstringify(<<Quote(A, X), Quote(B, Y), Quote(<<"(", "C", ")">>, Y)>>) }

\* What sessionStorage may hold under SESSION_KEY_LAST when the page is
\* opened: nothing, or the item an earlier page of the tab displayed
P0_InitSession ==
  { JNull, Quote(A, X), Quote(C, Z), Quote(<<"(", "C", ")">>, Z),
    [text |-> Undefined, category |-> Str(ServerSync)] }

InitView ==
  /\ quotes = <<>>
  /\ page \in {"script.js", "part_000"}
  /\ selectedCategory = IF page = "script.js" THEN All ELSE <<>>
  /\ IF page = "script.js"
     THEN \E st \in InitStorage : store = st[1] /\ filterStore = st[2]
     ELSE store \in P0_InitStorage /\ filterStore \in {JNull, Str(Y)}
  /\ session \in P0_InitSession
  /\ display = NoDisplay
  /\ loaded = FALSE
  /\ cycles = <<>>
  /\ addPosts = <<>>
  /\ reads = <<>>
  /\ lastAction = "init"
  /\ sent = <<>>
  /\ notice = NoNotice
  /\ lastResp = NoResp
  /\ lastSync = NoSync
  /\ acked = {}
  /\ failedPush = {}
  /\ events = 0
  /\ storageFull = FALSE
  /\ effects = <<>>
  /\ lastInput = NoInput
  /\ failedSave = {}
  /\ exported = NoFile

\* part_000:41-71: the DOMContentLoaded handler.  `selectedCategory` is the
\* value of the dropdown, empty in the page as loaded; `cycles` holds the
\* callback restoreSelectedCategory defers with setTimeout (part_000:164)
\* and the value `saved` it captured.  Assigning the dropdown a value no
\* option has leaves it empty (part_000:219).
P0_Startup ==
  /\ page = "part_000"
  /\ ~loaded
  /\ LET r == P0_loadQuotesFromLocalStorage(store, storageFull)
         value1 == P0_populateCategories(r.quotes, <<>>)
         fs1 == P0_saveSelectedCategory(value1, filterStore, storageFull)
         restores == session # JNull /\ isValidQuoteObject(session)
         qs == P0_restoreLastViewedQuote(r.quotes, session)
         value2 == P0_populateCategories(qs, value1)
         fs2 == P0_saveSelectedCategory(value2, fs1, storageFull)
     IN /\ quotes' = qs
        /\ store' = r.store
        /\ filterStore' = IF restores THEN fs2 ELSE fs1
        /\ selectedCategory' =
             IF ~restores THEN value1
             ELSE IF session.category.v \in P0_Categories(qs)
                  THEN session.category.v ELSE <<>>
        /\ cycles' = IF Falsy(fs1) \/ fs1.v = <<>> THEN <<>>
                     ELSE <<[pc |-> "timeout", saved |-> fs1.v]>>
        /\ display' = IF restores THEN Restored(session) ELSE display
        /\ effects' = (IF r.store # store THEN <<"setItem">> ELSE <<>>)
                      \o <<"setItem filter">>
                      \o (IF restores THEN <<"setItem filter">> ELSE <<>>)
  /\ loaded' = TRUE
  /\ lastAction' = "P0_Startup"
  /\ lastInput' = NoInput
  /\ sent' = <<>>
  /\ notice' = NoNotice
  /\ lastResp' = NoResp
  /\ lastSync' = NoSync
  /\ UNCHANGED <<addPosts, reads, acked, failedPush, events, storageFull,
                 failedSave, exported, session, page>>

\* part_000:164-170: the deferred callback of restoreSelectedCategory
P0_RestoreTimeout ==
  /\ page = "part_000"
  /\ cycles # <<>>
  /\ cycles' = Tail(cycles)
  /\ selectedCategory' = IF Head(cycles).saved \in P0_Categories(quotes)
                         THEN Head(cycles).saved ELSE selectedCategory
  /\ lastAction' = "P0_RestoreTimeout"
  /\ lastInput' = NoInput
  /\ sent' = <<>>
  /\ notice' = NoNotice
  /\ lastResp' = NoResp
  /\ lastSync' = NoSync
  /\ effects' = <<>>
  /\ UNCHANGED <<quotes, store, filterStore, loaded, addPosts, reads, acked,
                 failedPush, events, storageFull, failedSave, exported,
                 session, display, page>>

\* part_000:65-70: the user chooses the option value of the dropdown
P0_change(value) ==
  /\ page = "part_000"
  /\ loaded
  /\ value \in P0_Categories(quotes)
  /\ value # selectedCategory
  /\ selectedCategory' = value
  /\ filterStore' = P0_saveSelectedCategory(value, filterStore, storageFull)
  /\ lastAction' = "P0_change"
  /\ lastInput' = [kind |-> "option", value |-> value]
  /\ sent' = <<>>
  /\ notice' = NoNotice
  /\ lastResp' = NoResp
  /\ lastSync' = NoSync
  /\ effects' = <<"setItem filter">>
  /\ UNCHANGED <<quotes, store, loaded, cycles, addPosts, reads, acked,
                 failedPush, events, storageFull, failedSave, exported,
                 session, display, page>>

\* part_000:177-198: as script.js:193-207, the filter being the value of the
\* dropdown, where an empty value selects every item
P0_showRandomQuote(i, ok) ==
  /\ page = "part_000"
  /\ loaded
  /\ LET list == IF selectedCategory = <<>> THEN quotes
                 ELSE SelectSeq(quotes, LAMBDA q : q.category = Str(selectedCategory))
     IN IF list = <<>>
        THEN /\ i = 1 /\ ok
             /\ display' = EmptyDisplay
             /\ effects' = <<>>
             /\ UNCHANGED session
        ELSE /\ i \in 1..Len(list)
             /\ display' = Shown(list[i])
             /\ session' = IF ok THEN StringifyItem(list[i]) ELSE session
             /\ effects' = <<IF ok THEN "session.setItem" ELSE "session.setItem throws">>
  /\ lastAction' = "P0_showRandomQuote"
  /\ lastInput' = [kind |-> "random", i |-> i]
  /\ sent' = <<>>
  /\ notice' = NoNotice
  /\ lastResp' = NoResp
  /\ lastSync' = NoSync
  /\ UNCHANGED <<quotes, selectedCategory, store, filterStore, loaded, cycles,
                 addPosts, reads, acked, failedPush, events, storageFull,
                 failedSave, exported, page>>

\* The page of part_000 is reloaded: localStorage and sessionStorage stay
P0_Reload ==
  /\ page = "part_000"
  /\ loaded
  /\ events < MaxEvents
  /\ events' = events + 1
  /\ quotes' = <<>>
  /\ selectedCategory' = <<>>
  /\ loaded' = FALSE
  /\ cycles' = <<>>
  /\ display' = NoDisplay
  /\ lastAction' = "P0_Reload"
  /\ lastInput' = NoInput
  /\ sent' = <<>>
  /\ notice' = NoNotice
  /\ lastResp' = NoResp
  /\ lastSync' = NoSync
  /\ effects' = <<>>
  /\ UNCHANGED <<store, filterStore, addPosts, reads, acked, failedPush,
                 storageFull, failedSave, exported, session, page>>

\* The sessions of the two pages; in those of script.js the server leaves
\* the GET of the startup unanswered
NextView ==
  \/ page = "script.js" /\ Startup
  \/ page = "script.js" /\ Reload
  \/ page = "script.js" /\ \E value \in FilterValues : filterQuotes(value)
  \/ page = "script.js" /\ \E replace \in BOOLEAN, file \in ImportFiles :
                              importFromJsonFile(replace, file)
  \/ page = "script.js" /\ \E j \in 1..MaxEvents : ImportOnload(j)
  \/ \E i \in 1..(Len(quotes) + 1), ok \in BOOLEAN : showRandomQuote(i, ok)
  \/ P0_Startup
  \/ P0_RestoreTimeout
  \/ \E value \in {X, Y} : P0_change(value)
  \/ \E i \in 1..(Len(quotes) + 1), ok \in BOOLEAN : P0_showRandomQuote(i, ok)
  \/ P0_Reload

SpecView == InitView /\ [][NextView]_vars

----------------------------------------------------------------------------
(* Properties                                                              *)

NoDup(qs) == \A i, j \in 1..Len(qs) : i # j => Key(qs[i]) # Key(qs[j])

IsPrefix(s, t) == Len(s) <= Len(t) /\ SubSeq(t, 1, Len(s)) = s

Count(qs, q) == Cardinality({i \in 1..Len(qs) : qs[i] = q})

Reduced(q) == [text |-> q.text, category |-> q.category]

RECURSIVE Adopted(_, _, _)
\* The items of R, from index i on, whose key is neither in L nor at an
\* earlier index of R, in the order of R and reduced to {text, category}
Adopted(L, R, i) ==
  IF i > Len(R) THEN <<>>
  ELSE (IF Key(R[i]) \notin KeySet(L) /\ \A j \in 1..(i - 1) : Key(R[j]) # Key(R[i])
        THEN <<Reduced(R[i])>> ELSE <<>>) \o Adopted(L, R, i + 1)

\* C1: in every state reached by startup, addQuote, import and sync, no two
\* items of `quotes`, nor of the persisted collection, share a dedup key.
C1_NoDuplicateKeys ==
  loaded => NoDup(quotes) /\ (store.kind = "array" => NoDup(store.arr))

\* C2: at most one syncQuotes cycle is in flight: a trigger arriving while a
\* cycle awaits its fetch or a push is dropped, issuing no request and
\* starting no second cycle.
C2_OverlappingTriggerDropped ==
  [][(lastAction' = "SyncTrigger" /\ cycles # <<>>)
       => (cycles' = cycles /\ sent' = <<>>)]_vars

\* C3: mergeServerIntoLocal is idempotent: run again with the same batch on
\* the collection it produced, it appends nothing and returns 0.
C3_MergeIdempotent ==
  lastSync.set =>
    mergeServerIntoLocal(quotes, lastSync.serverQuotes) = [quotes |-> quotes, added |-> 0]

\* A merge that adopted some items of its batch and suppressed others
C3_Witness ==
  /\ lastAction = "MergeCall"
  /\ lastSync.added > 0
  /\ lastSync.added < Len(lastSync.serverQuotes)

\* C4: sync is add-only: every step of a syncQuotes cycle (the merge after
\* the fetch, the push loop) leaves each item that was in the collection in
\* place, with the same text and category; it only appends.
C4_SyncAddOnly ==
  [][lastAction' \in {"SyncFetch", "SyncPush"} => IsPrefix(quotes, quotes')]_vars

\* A merge into a non-empty collection that adopted an item while another
\* item of the batch had the key of an item already in the collection
C4_Witness ==
  /\ lastAction = "SyncFetch"
  /\ lastSync.set
  /\ lastSync.added > 0
  /\ Len(quotes) > lastSync.added
  /\ \E i \in 1..(Len(quotes) - lastSync.added), j \in 1..Len(lastSync.serverQuotes) :
       Key(quotes[i]) = Key(lastSync.serverQuotes[j])

\* C5: mergeServerIntoLocal(R) appends exactly the items of R whose key is
\* absent from the collection, each key once, in the order of R, and returns
\* the number of items appended.
C5_MergeAppendsNewKeys ==
  [][lastAction' = "MergeCall"
       => /\ quotes' = quotes \o Adopted(quotes, lastSync'.serverQuotes, 1)
          /\ lastSync'.added = Len(Adopted(quotes, lastSync'.serverQuotes, 1))]_vars

\* local [{A,X}] merged with [{A,X},{C,Z}] gave [{A,X},{C,Z}] with 1 added
C5_Witness ==
  /\ lastAction = "MergeCall"
  /\ lastSync.serverQuotes =
       <<Quote(A, X), [text |-> Str(C), category |-> Str(Z), id |-> Num(<<"1">>)]>>
  /\ lastSync.added = 1
  /\ quotes = <<Quote(A, X), Quote(C, Z)>>

\* C6: every item of the collection, in memory and persisted, satisfies
\* isValidQuoteObject, whatever the import files and the GET responses.
C6_OnlyValidItems ==
  loaded =>
    /\ \A i \in 1..Len(quotes) : isValidQuoteObject(quotes[i])
    /\ store.kind = "array"
    /\ \A i \in 1..Len(store.arr) : isValidQuoteObject(store.arr[i])

\* C7: a restart of the page after sync cycles loads exactly the collection
\* that was persisted; the collection is not reset to the defaults.
C7_RestartLoadsPersisted ==
  [][(lastAction = "Reload" /\ lastAction' = "Startup")
       => (quotes' = store.arr /\ store' = store)]_vars

\* C8: an item whose addQuote push failed is attempted by the next cycle
\* whose fetch succeeds, if it is still in the collection and its key is not
\* in the fetched batch, whatever the number of other local-only items.
C8_FailedPushRetried ==
  [][(/\ lastAction = "SyncTrigger"
      /\ Len(cycles) = 1
      /\ lastAction' = "SyncFetch"
      /\ lastSync'.set)
       => \A q \in failedPush :
            (q \in Range(quotes') /\ Key(q) \notin KeySet(lastSync'.serverQuotes))
              => q \in Range(lastSync'.batch)]_vars

\* C9: once a POST for an item of the collection was acknowledged (here the
\* POST addQuote issued for it), no later step, of a cycle's push loop or of
\* addQuote, issues a POST for that item.
C9_NoPushAfterAck ==
  [][\A i \in 1..Len(sent') :
       (sent'[i].method = "POST" /\ Count(quotes', sent'[i].body) <= 1)
         => sent'[i].body \notin acked]_vars

\* C10: when the fetch of a cycle fails (network error or non-success
\* response) the cycle ends with a failure notification: nothing is merged,
\* `quotes` and the persisted collection are unchanged, no push is issued.
C10_FetchFailureEndsCycle ==
  [][(lastAction' = "SyncFetch" /\ lastResp'.kind \in {"neterr", "notok"})
       => /\ quotes' = quotes
          /\ store' = store
          /\ sent' = <<>>
          /\ ~lastSync'.set
          /\ notice'.kind = "syncfailed"
          /\ \E k \in 1..Len(cycles) :
               cycles[k].pc = "fetch" /\ cycles' = RemoveAt(cycles, k)]_vars

\* A cycle of a session holding items ended on a non-success response that
\* carried records
C10_Witness ==
  /\ lastAction = "SyncFetch"
  /\ lastResp.kind = "notok"
  /\ lastResp.data # <<>>
  /\ notice.kind = "syncfailed"
  /\ quotes # <<>>

\* C11: within a cycle a failed push is skipped: the loop goes on to the
\* next candidate of the batch (or ends after the last one), no sync-failure
\* notification is produced, and `quotes` and the persisted collection are
\* unchanged.
C11_PushFailureSkipped ==
  [][(lastAction' = "SyncPush" /\ lastResp'.kind = "postfailed")
       => /\ quotes' = quotes
          /\ store' = store
          /\ notice'.kind # "syncfailed"
          /\ "notify" \notin Range(effects')
          /\ \E k \in 1..Len(cycles) :
               /\ cycles[k].pc = "push"
               /\ IF cycles[k].i < Len(cycles[k].batch)
                  THEN /\ cycles' = [cycles EXCEPT ![k].i = cycles[k].i + 1]
                       /\ sent' = <<POST(cycles[k].batch[cycles[k].i + 1])>>
                  ELSE /\ cycles' = RemoveAt(cycles, k)
                       /\ sent' = <<>>]_vars

\* A push failed and the cycle went on to POST the next candidate
C11_Witness ==
  /\ lastAction = "SyncPush"
  /\ lastResp.kind = "postfailed"
  /\ sent # <<>>
  /\ \E k \in 1..Len(cycles) : cycles[k].pc = "push" /\ cycles[k].i > 1

\* C12: a step of a cycle writes the collection to localStorage exactly once
\* when its merge adopted items, and not at all otherwise; the success
\* notification is shown only in the first case and names the number of items
\* adopted.
C12_SyncWritesOnce ==
  [][lastAction' \in {"SyncTrigger", "SyncFetch", "SyncPush"}
       => IF Len(quotes') > Len(quotes)
          THEN /\ Count(effects', "setItem") = 1
               /\ store' = JSONstringify(quotes')
               /\ notice' = [kind |-> "synced", n |-> Len(quotes') - Len(quotes)]
          ELSE /\ Count(effects', "setItem") = 0
               /\ store' = store
               /\ notice'.kind # "synced"]_vars

\* A cycle adopted two items at once, wrote the collection once and named 2
C12_Witness ==
  /\ lastAction = "SyncFetch"
  /\ notice = [kind |-> "synced", n |-> 2]
  /\ Count(effects, "setItem") = 1
  /\ store = JSONstringify(quotes)

\* C13: while storage writes succeed, after every handler (startup load,
\* addQuote, import in either mode, a step of a sync cycle) the persisted
\* collection is the JSON text of `quotes`: no item is in memory only.
C13_PersistedEqualsMemory ==
  loaded => (store = JSONstringify(quotes) /\ store.arr = quotes)

\* An item was added to a collection that had adopted remote items, and the
\* store holds all of it
C13_Witness ==
  /\ lastAction = "addQuote"
  /\ Len(quotes) >= Len(defaultQuotes) + 2
  /\ quotes[Len(quotes)] = Quote(A, X)
  /\ \E i \in 1..Len(quotes) : quotes[i] = Quote(C, ServerSync)
  /\ store.arr = quotes

\* The stored value d is absent, not parseable, not an array, or holds an
\* element that is not a valid quote object
Corrupt(d) ==
  \/ d.kind \in {"absent", "unparseable", "nonarray"}
  \/ \E i \in 1..Len(d.arr) :
       \/ d.arr[i] = JNull
       \/ d.arr[i].text.t # "string"
       \/ d.arr[i].category.t # "string"
       \/ Range(d.arr[i].text.v) \subseteq {" "}
       \/ Range(d.arr[i].category.v) \subseteq {" "}

\* C14: loadQuotesFromLocalStorage: when the stored value is absent, not
\* parseable, not an array or holds an invalid element, `quotes` becomes the
\* 4 defaults and the store is overwritten with them; otherwise `quotes` is
\* the stored array and the store is left as it is.
C14_LoadFallsBackToDefaults ==
  [][lastAction' = "Startup"
       => IF Corrupt(store)
          THEN /\ quotes' = defaultQuotes
               /\ Len(quotes') = 4
               /\ store' = JSONstringify(defaultQuotes)
          ELSE /\ quotes' = store.arr
               /\ store' = store]_vars

\* The load kept a stored array of three valid items
C14_Witness ==
  /\ lastAction = "Startup"
  /\ Len(quotes) = 3
  /\ store.arr = quotes
  /\ quotes # defaultQuotes

\* C15: when the write of a handler fails, the handler still runs to its
\* end with the mutation kept in `quotes` (addQuote appends and POSTs, import
\* and sync keep what they merged), and every later write that succeeds
\* stores the whole of `quotes`, the items whose write had failed included.
C15_FailedWriteKeepsMemory ==
  [][/\ ("setItem throws" \in Range(effects') /\ lastAction' = "addQuote")
          => /\ Len(quotes') = Len(quotes) + 1
             /\ SubSeq(quotes', 1, Len(quotes)) = quotes
             /\ sent' = <<POST(quotes'[Len(quotes')])>>
             /\ "alert" \in Range(effects')
     /\ ("setItem throws" \in Range(effects') /\ lastAction' = "ImportOnload")
          => /\ quotes' = importInto(quotes, ValidItems(lastInput'.result.arr),
                                     lastInput'.replace)
             /\ "alert" \in Range(effects')
     /\ ("setItem throws" \in Range(effects') /\ lastAction' = "SyncFetch")
          => /\ quotes' = quotes \o Adopted(quotes, lastSync'.serverQuotes, 1)
             /\ Len(quotes') > Len(quotes)
             /\ lastSync'.batch # <<>> => sent' = <<POST(lastSync'.batch[1])>>
     /\ "setItem" \in Range(effects') => store' = JSONstringify(quotes')]_vars

\* The write of a cycle that adopted {C, Server Sync} failed; room was made
\* and the write of a later handler stored the collection, that item included
C15_Witness ==
  /\ Quote(C, ServerSync) \in failedSave
  /\ "setItem" \in Range(effects)
  /\ Quote(C, ServerSync) \in Range(store.arr)
  /\ store = JSONstringify(quotes)

\* C16: a handler whose write to localStorage failed does not report
\* success to the user.
C16_FailedWriteNotReportedAsSuccess ==
  "setItem throws" \in Range(effects)
    => notice.kind \notin {"alert: Quote added successfully!",
                           "alert: Imported quotes successfully.",
                           "synced"}

\* The form value v is empty once trimmed
Blank(v) == Falsy(v) \/ Range(v.v) \subseteq {" "}

\* The position of the first x in the sequence s, 0 when there is none
IndexOf(s, x) ==
  IF x \in Range(s) THEN CHOOSE i \in 1..Len(s) : s[i] = x /\ \A j \in 1..(i - 1) : s[j] # x
  ELSE 0

\* C17: a valid addQuote(text, category) appends the one item {trim(text),
\* trim(category)} at the end of `quotes`, writes the collection to
\* localStorage before it issues the POST, and issues exactly one POST, for
\* that item; when that POST fails, `quotes` and the store stay as they are.
C17_AddAppendsPersistsPushes ==
  [][/\ (/\ lastAction' = "addQuote"
         /\ ~Blank(lastInput'.text)
         /\ ~Blank(lastInput'.category))
          => LET obj == Quote(Trim(lastInput'.text.v), Trim(lastInput'.category.v))
             IN /\ quotes' = Append(quotes, obj)
                /\ store' = JSONstringify(quotes')
                /\ sent' = <<POST(obj)>>
                /\ Count(effects', "setItem") = 1
                /\ Count(effects', "POST") = 1
                /\ IndexOf(effects', "setItem") < IndexOf(effects', "POST")
     /\ (lastAction' = "AddPostResponse" /\ lastResp'.kind = "postfailed")
          => /\ quotes' = quotes
             /\ store' = store]_vars

\* The POST of addQuote(" A ", "X") failed and {A, X} is still the last item
\* of `quotes` and of the store
C17_Witness ==
  /\ lastAction = "AddPostResponse"
  /\ lastResp.kind = "postfailed"
  /\ Quote(A, X) \in failedPush
  /\ quotes[Len(quotes)] = Quote(A, X)
  /\ store.arr = quotes

\* C18: addQuote with a text or a category that is empty once trimmed is
\* rejected with an alert: `quotes`, the store, the selected category and
\* the stored filter are unchanged and no POST is issued.
C18_BlankAddRejected ==
  [][(/\ lastAction' = "addQuote"
      /\ Blank(lastInput'.text) \/ Blank(lastInput'.category))
       => /\ quotes' = quotes
          /\ store' = store
          /\ selectedCategory' = selectedCategory
          /\ filterStore' = filterStore
          /\ sent' = <<>>
          /\ addPosts' = addPosts
          /\ effects' = <<"alert">>
          /\ notice'.kind = "alert: Please fill in both fields."]_vars

\* addQuote(" ", "X") was rejected in a session holding items
C18_Witness ==
  /\ lastAction = "addQuote"
  /\ lastInput.text = Str(<<" ">>)
  /\ notice.kind = "alert: Please fill in both fields."
  /\ quotes # <<>>
  /\ sent = <<>>

\* C19: an import whose file is not parseable JSON or is not an array aborts
\* the import only, in merge and in replace mode: `quotes` and the store are
\* untouched, nothing is written, and the rest of the session is as it was.
C19_BadImportAborts ==
  [][(/\ lastAction' = "ImportOnload"
      /\ lastInput'.result.kind \in {"unparseable", "nonarray"})
       => /\ quotes' = quotes
          /\ store' = store
          /\ Count(effects', "setItem") = 0
          /\ notice'.kind = "alert: Invalid JSON file."
          /\ UNCHANGED <<selectedCategory, filterStore, loaded, cycles, addPosts>>]_vars

\* A replace import of a file holding a JSON object left the collection and
\* the store as they were
C19_Witness ==
  /\ lastAction = "ImportOnload"
  /\ lastInput.replace
  /\ lastInput.result.kind = "nonarray"
  /\ notice.kind = "alert: Invalid JSON file."
  /\ quotes # <<>>
  /\ store.arr = quotes

\* C20: a merge import of the array P appends to `quotes` as it is when the
\* read completes the valid items of P whose key is absent from it, each key
\* once and in the order of P, leaves the items it held in place, and
\* persists the result.
C20_MergeImportAppendsNewKeys ==
  [][(/\ lastAction' = "ImportOnload"
      /\ ~lastInput'.replace
      /\ lastInput'.result.kind = "array")
       => /\ quotes' = quotes \o Adopted(quotes,
                                         SelectSeq(lastInput'.result.arr, isValidQuoteObject),
                                         1)
          /\ store' = JSONstringify(quotes')]_vars

\* [{A,X},{B,Y}] was merged into a collection holding {A,X} and the item
\* {C, Server Sync} adopted from the server: only {B,Y} was appended
C20_Witness ==
  /\ lastAction = "ImportOnload"
  /\ ~lastInput.replace
  /\ lastInput.result = JSONstringify(<<Quote(A, X), Quote(B, Y)>>)
  /\ quotes = <<Quote(A, X), Quote(A, ServerSync), Quote(C, ServerSync), Quote(B, Y)>>
  /\ store.arr = quotes

\* An array element that is an object whose text and category are strings
\* holding a character other than white space
WellFormed(x) ==
  /\ x # JNull
  /\ x.text.t = "string"
  /\ x.category.t = "string"
  /\ \E i \in 1..Len(x.text.v) : x.text.v[i] # " "
  /\ \E i \in 1..Len(x.category.v) : x.category.v[i] # " "

\* C21: a replace import of the array P makes `quotes` exactly the valid
\* items of P, in the order of P and reduced to {text, category}; the items
\* held before are dropped, also when P has no valid item, and the result
\* is persisted.
C21_ReplaceImportReplaces ==
  [][(/\ lastAction' = "ImportOnload"
      /\ lastInput'.replace
      /\ lastInput'.result.kind = "array")
       => LET P == lastInput'.result.arr
              keep == {i \in 1..Len(P) : WellFormed(P[i])}
          IN /\ Len(quotes') = Cardinality(keep)
             /\ \A n \in 1..Len(quotes') :
                  \E i \in keep :
                    /\ Cardinality({m \in keep : m <= i}) = n
                    /\ quotes'[n] = Reduced(P[i])
             /\ store' = JSONstringify(quotes')]_vars

\* A collection of two items was replaced by a file without valid item:
\* the collection and the store are empty
C21_Witness ==
  /\ lastAction = "ImportOnload"
  /\ lastInput.replace
  /\ lastInput.result = ArrayFile(<<Quote(<<" ">>, X), JNull>>)
  /\ quotes = <<>>
  /\ store = ArrayFile(<<>>)

\* C22: isValidQuoteObject(obj) is truthy exactly when obj.text and
\* obj.category are both strings that hold a character other than white
\* space; {text: "", category: "A"} and {text: "A", category: "  "} are
\* rejected.
C22_ValidatorAcceptsNonBlankStrings ==
  lastAction = "ValidateCall"
    => /\ (notice.kind = "truthy") <=> WellFormed(lastInput.obj)
       /\ lastInput.obj \in {[text |-> Str(<<>>), category |-> Str(A)],
                             [text |-> Str(A), category |-> Str(<<" ", " ">>)]}
            => notice.kind = "falsy"

\* {text: "A", category: "  "} was rejected
C22_Witness ==
  /\ lastAction = "ValidateCall"
  /\ lastInput.obj = [text |-> Str(A), category |-> Str(<<" ", " ">>)]
  /\ notice.kind = "falsy"

\* C23: after startup `selectedCategory` is the persisted filter only if
\* that category is in the category set of the loaded collection; otherwise
\* it is "all".
C23_RestoredFilterExists ==
  lastAction = "Startup"
    => selectedCategory =
         IF /\ filterStore.t = "string"
            /\ \E i \in 1..Len(quotes) : quotes[i].category.v = filterStore.v
         THEN filterStore.v
         ELSE All

\* C24: addQuote is not blocked by a syncQuotes cycle in flight and no
\* update is lost: in a session of cycles and additions a valid addQuote
\* appends its item whatever the cycles in flight and leaves them as they
\* are, and after every step of a cycle or of an addition every item added
\* so far is in `quotes`, every item `quotes` held (the adopted ones
\* included) is still in place, and the store holds `quotes`.
C24_AddDuringSyncKeepsBoth ==
  [][/\ lastAction' \in {"addQuote", "AddPostResponse", "SyncFetch", "SyncPush"}
          => /\ \A q \in Range(addPosts') \cup acked' \cup failedPush' :
                  \E i \in 1..Len(quotes') : quotes'[i] = q
             /\ IsPrefix(quotes, quotes')
             /\ store' = JSONstringify(quotes')
     /\ (/\ lastAction' = "addQuote"
         /\ ~Blank(lastInput'.text)
         /\ ~Blank(lastInput'.category))
          => /\ Len(quotes') = Len(quotes) + 1
             /\ Len(addPosts') = Len(addPosts) + 1
             /\ quotes'[Len(quotes')] = addPosts'[Len(addPosts')]
             /\ cycles' = cycles]_vars

\* addQuote(" A ", "X") ran while the cycle that had adopted {C, Server
\* Sync} was suspended in its push loop: `quotes` and the store hold both
C24_Witness ==
  /\ lastAction = "addQuote"
  /\ \E k \in 1..Len(cycles) : cycles[k].pc = "push"
  /\ quotes[Len(quotes)] = Quote(A, X)
  /\ \E i \in 1..Len(quotes) : quotes[i] = Quote(C, ServerSync)
  /\ store.arr = quotes

\* The keys of the items of the remote prefix
PrefixKeys ==
  {t \o <<"|", "|">> \o <<"Server", " ", "Sync">> : t \in {A, C}}

\* Every key of the remote prefix is in `quotes` and in the store
Converged ==
  /\ PrefixKeys \subseteq {Key(quotes[i]) : i \in 1..Len(quotes)}
  /\ store.kind = "array"
  /\ PrefixKeys \subseteq {Key(store.arr[i]) : i \in 1..Len(store.arr)}

\* C25: under fair periodic ticks, with fetches that fail and then succeed
\* with a fixed remote prefix, eventually every item of the prefix has its
\* key in `quotes` and in the store for good, and from then on a cycle
\* adopts nothing.
C25_SyncConverges ==
  /\ <>[]Converged
  /\ [][(Converged /\ lastAction' = "SyncFetch")
          => /\ quotes' = quotes
             /\ store' = store]_vars

\* A fetch failed after the prefix had been adopted and persisted
C25_Witness ==
  /\ Converged
  /\ lastAction = "SyncFetch"
  /\ lastResp.kind = "neterr"
  /\ Len(quotes) = Len(defaultQuotes) + Cardinality(PrefixKeys)

\* C26: exportQuotesToJson serializes the whole of `quotes` whatever the
\* selected category and changes neither `quotes`, the store nor the
\* filter; a replace import of the exported file makes `quotes` the
\* collection that was exported, and a merge import of it into that
\* collection adds nothing.
C26_ExportImportRoundTrip ==
  [][/\ lastAction' = "exportQuotesToJson"
          => /\ exported'.kind = "array"
             /\ exported'.arr = quotes
             /\ UNCHANGED <<quotes, store, filterStore, selectedCategory>>
     /\ (/\ lastAction' = "ImportOnload"
         /\ exported # NoFile
         /\ lastInput'.result = exported)
          => IF lastInput'.replace
             THEN quotes' = exported.arr
             ELSE quotes = exported.arr => quotes' = quotes]_vars

\* The number of items of qs whose key is k
KeyCount(qs, k) == Cardinality({i \in 1..Len(qs) : Key(qs[i]) = k})

\* The step from qs to qs2 appends to qs one item for each key of the
\* items `incoming` that is absent from qs, and no item of any other key
AdoptsOnce(qs, qs2, incoming) ==
  /\ IsPrefix(qs, qs2)
  /\ LET new == SubSeq(qs2, Len(qs) + 1, Len(qs2))
     IN /\ \A i \in 1..Len(incoming) :
             KeyCount(new, Key(incoming[i])) =
               IF KeyCount(qs, Key(incoming[i])) = 0 THEN 1 ELSE 0
        /\ \A i \in 1..Len(new) :
             \E j \in 1..Len(incoming) : Key(incoming[j]) = Key(new[i])

\* C27: whatever the interleaving of overlapping cycles and merge-import
\* completions, each merge runs as one step on `quotes` as it is then: an
\* item whose key is absent is adopted exactly once and an item whose key
\* is present is not adopted, so that of two cycles that fetched the same
\* batch the second appends nothing.
C27_MergesAdoptOnce ==
  [][/\ (lastAction' = "SyncFetch" /\ lastSync'.set)
          => AdoptsOnce(quotes, quotes', lastSync'.serverQuotes)
     /\ (/\ lastAction' = "ImportOnload"
         /\ ~lastInput'.replace
         /\ lastInput'.result.kind = "array")
          => AdoptsOnce(quotes, quotes',
                        SelectSeq(lastInput'.result.arr, WellFormed))]_vars

\* Two cycles overlapped and fetched the same batch: the first adopted
\* {C, Server Sync} and is in its push loop, the second adopted nothing
C27_Witness ==
  /\ lastAction = "SyncFetch"
  /\ lastSync.set
  /\ lastSync.added = 0
  /\ Len(lastSync.serverQuotes) = 3
  /\ lastSync.serverQuotes[2] = Quote(C, ServerSync)
  /\ KeyCount(quotes, Key(Quote(C, ServerSync))) = 1
  /\ \A i \in 1..Len(quotes) : quotes[i].text.v # <<" ">>
  /\ \E k \in 1..Len(cycles) :
       /\ cycles[k].pc = "push"
       /\ \A i \in 1..Len(cycles[k].batch) :
            cycles[k].batch[i].category.v # ServerSync

\* b holds, in the order of qs, the first n items of qs whose key is the
\* key of no item of R (all of them when there are fewer than n)
FirstLocalOnly(b, qs, R, n) ==
  LET idx == {i \in 1..Len(qs) : \A j \in 1..Len(R) : Key(R[j]) # Key(qs[i])}
  IN /\ Len(b) = IF Cardinality(idx) < n THEN Cardinality(idx) ELSE n
     /\ \A m \in 1..Len(b) :
          \E i \in idx : /\ Cardinality({l \in idx : l <= i}) = m
                          /\ b[m] = qs[i]

\* C28: the items a cycle pushes are at most 10: the first 10, in the
\* order of the collection, of the items of the merged collection whose
\* key is absent from the fetched batch; an item whose key is in the batch,
\* so an item adopted by this cycle, is never pushed.  The POSTs of the
\* cycle are issued for these items one after the other.
C28_PushesFirstTenLocalOnly ==
  [][/\ (lastAction' = "SyncFetch" /\ lastSync'.set)
          => LET b == lastSync'.batch
             IN /\ Len(b) <= PushBatch
                /\ FirstLocalOnly(b, quotes', lastSync'.serverQuotes, PushBatch)
                /\ \A i \in (Len(quotes) + 1)..Len(quotes') :
                     \A m \in 1..Len(b) : b[m] # quotes'[i]
                /\ IF b = <<>>
                   THEN sent' = <<>> /\ Len(cycles') = Len(cycles) - 1
                   ELSE /\ sent' = <<POST(b[1])>>
                        /\ \E k \in 1..Len(cycles) :
                             /\ cycles[k].pc = "fetch"
                             /\ cycles' = [cycles EXCEPT
                                             ![k] = [pc |-> "push", batch |-> b, i |-> 1]]
     /\ lastAction' = "SyncPush"
          => \E k \in 1..Len(cycles) :
               /\ cycles[k].pc = "push"
               /\ IF cycles[k].i < Len(cycles[k].batch)
                  THEN /\ sent' = <<POST(cycles[k].batch[cycles[k].i + 1])>>
                       /\ cycles' = [cycles EXCEPT ![k].i = cycles[k].i + 1]
                  ELSE /\ sent' = <<>>
                       /\ cycles' = RemoveAt(cycles, k)]_vars

\* The collection held 11 local-only items when a cycle adopted a remote
\* item: its batch is the first 10 and leaves out the 11th, {A, X}
C28_Witness ==
  /\ lastAction = "SyncFetch"
  /\ lastSync.set
  /\ lastSync.added > 0
  /\ Len(lastSync.batch) = PushBatch
  /\ lastSync.batch = StoredTen
  /\ \E i \in 1..Len(quotes) : quotes[i] = Quote(A, X)

\* The network calls cycle c has still to make at most: the GET it awaits
\* and PushBatch POSTs, or the POSTs left of its batch
CallsLeft(c) ==
  IF c.pc = "fetch" THEN PushBatch + 1 ELSE Len(c.batch) - c.i + 1

MappedHead(data, n) ==
  [i \in 1..(IF Len(data) < n THEN Len(data) ELSE n) |->
     [text |-> ServerText(data[i]), category |-> Str(ServerSync)]]

\* C30: a cycle adopts at most 10 items, all mapped from the first 10
\* records of the response, in their order; the records beyond the 10th
\* influence neither `quotes` nor the items the cycle pushes.
C30_OnlyFirstTenRecords ==
  [][(lastAction' = "SyncFetch" /\ lastResp'.kind = "ok")
       => LET R == MappedHead(lastResp'.data, FetchLimit)
          IN /\ lastSync'.set
             /\ Len(quotes') - Len(quotes) <= FetchLimit
             /\ quotes' = quotes \o Adopted(quotes, R, 1)
             /\ store' = JSONstringify(quotes')
             /\ FirstLocalOnly(lastSync'.batch, quotes', R, PushBatch)]_vars

\* The response held 11 records; the 9 distinct items of the first 10 were
\* adopted and the 11th, of title Z, was not
C30_Witness ==
  /\ lastAction = "SyncFetch"
  /\ Len(lastResp.data) = FetchLimit + 1
  /\ lastResp.data[FetchLimit + 1] # JNull
  /\ lastSync.added = FetchLimit - 1
  /\ \A i \in 1..Len(quotes) : quotes[i].text.v # Z

\* C31: the dedup key tells every two distinct (text, category) pairs
\* apart: after mergeServerIntoLocal(R), for every valid item r of R the
\* collection holds an item with exactly the text and the category of r.
C31_KeyDistinguishesPairs ==
  [][lastAction' = "MergeCall"
       => \A i \in 1..Len(lastSync'.serverQuotes) :
            LET r == lastSync'.serverQuotes[i]
            IN WellFormed(r)
                 => \E j \in 1..Len(quotes') :
                      /\ quotes'[j].text = r.text
                      /\ quotes'[j].category = r.category]_vars

\* C32: after every operation that changes the selection (filterQuotes,
\* addQuote) the stored filter is the in-memory selectedCategory, so that a
\* restart restores the category addQuote switched to.
C32_FilterPersisted ==
  [][(/\ lastAction' \in {"filterQuotes", "addQuote"}
      /\ selectedCategory' # selectedCategory)
       => filterStore' = Str(selectedCategory')]_vars

\* The number of items of qs whose concatenation text + category is k
V3_KeyCount(qs, k) == Cardinality({i \in 1..Len(qs) : V3_Key(qs[i]) = k})

\* C33: in 3-script.js, after one cycle of syncWithServer on a collection L
\* and a remote batch R, each key of R that was absent from L appears
\* exactly once in the collection.
C33_BatchDuplicatesSuppressed ==
  [][(lastAction' = "syncWithServer" /\ lastSync'.set)
       => \A i \in 1..Len(lastSync'.serverQuotes) :
            LET k == V3_Key(lastSync'.serverQuotes[i])
            IN V3_KeyCount(quotes, k) = 0 => V3_KeyCount(quotes', k) = 1]_vars
\* No two items of qs have the same text and the same category
V3_NoDupPairs(qs) ==
  \A i, j \in 1..Len(qs) :
    i # j => (qs[i].text # qs[j].text \/ qs[i].category # qs[j].category)

\* Some item of qs has the text and the category of q
V3_HasPair(qs, q) ==
  \E i \in 1..Len(qs) : qs[i].text = q.text /\ qs[i].category = q.category

\* C34: in 3-script.js, a merge import into a duplicate-free collection
\* never yields two items with the same (text, category) pair and never
\* drops a valid imported item whose pair is absent from the collection.
C34_MergeImportDedups ==
  [][(/\ lastAction' = "V3_ImportOnload"
      /\ ~lastInput'.replace
      /\ lastInput'.result.kind = "array"
      /\ V3_NoDupPairs(quotes))
       => /\ V3_NoDupPairs(quotes')
          /\ \A i \in 1..Len(lastInput'.result.arr) :
               LET q == lastInput'.result.arr[i]
               IN (WellFormed(q) /\ ~V3_HasPair(quotes, q)) => V3_HasPair(quotes', q)]_vars
\* The ids held by the items of qs
P3_Ids(qs) == {qs[i].id : i \in 1..Len(qs)}

C36_LastViewedObservational ==
  [][/\ lastAction' = "showRandomQuote"
        => /\ quotes' = quotes /\ store' = store /\ filterStore' = filterStore
           /\ \/ session' = session
              \/ \E i \in 1..Len(quotes) :
                   /\ session' = StringifyItem(quotes[i])
                   /\ selectedCategory \in {All, quotes[i].category.v}
     /\ lastAction' = "Startup"
        => /\ quotes' = loadQuotesFromLocalStorage(store, storageFull).quotes
           /\ store' = loadQuotesFromLocalStorage(store, storageFull).store
           /\ filterStore' = filterStore
           /\ session' = session
     /\ lastAction' = "P0_Startup"
        => /\ quotes' = P0_loadQuotesFromLocalStorage(store, storageFull).quotes
           /\ store' = P0_loadQuotesFromLocalStorage(store, storageFull).store
           /\ filterStore' = Str(P0_populateCategories(quotes', <<>>))
           /\ session' = session]_vars

\* The startup of part_000 has restored an item whose category the
\* collection lacks: the placeholder was pushed and filtered out
C36_Witness ==
  /\ lastAction = "P0_Startup"
  /\ display.kind = "restored"
  /\ session.category.v \notin P0_Categories(quotes)
  /\ quotes # <<>>
====
